---- MODULE Spec2Model ----
(***************************************************************************)
(* Province adjacency engine of the map tools:                             *)
(*   src/data/calculate_adjacencies.py                                      *)
(*   src/data/update_combined_europe_with_adjacencies.py                    *)
(*                                                                         *)
(* Python floats are modelled as fixed-point integers: a coordinate, a     *)
(* length or a tolerance v stands for v / FP game units, a component of a  *)
(* unit vector n stands for n / NS.  Every float operation of the source   *)
(* is the same operation here, rounded to the nearest representable value. *)
(***************************************************************************)
EXTENDS Integers, Sequences, FiniteSets, TLC

\* Resolution of a modelled float: 1/200 game unit, half of the 0.01 step of
\* round(x, 2), so that rounding to two decimals changes values.
FP == 200
\* Resolution of a component of a normalised direction vector.
NS == 10000

\* ------------------------------------------------------------------ bounds
\* Largest number of provinces in an input map.
MaxProvinces == 3
\* Number of consecutive passes run over the same map.
MaxRuns == 2
\* Largest number of source files in a merge list.
MaxSources == 3

\* ------------------------------------------------------- program constants
\* len(boundary) < 3: a boundary needs three points.
MinBoundaryPoints == 3
\* tolerance = median * 0.005, as thousandths.
ToleranceFactorPerMille == 5
\* cross < 0.01, as hundredths.
CrossThresholdPercent == 1
\* return 1.0  (default fallback)
FallbackTolerance == 1 * FP
\* tolerance: float = None
None == -1
\* province.get('boundary', []) of a province without the field
NoField == <<"no boundary field">>

\* ------------------------------------------------------------- arithmetic
Abs(x) == IF x < 0 THEN -x ELSE x
Min2(a, b) == IF a < b THEN a ELSE b
Max2(a, b) == IF a > b THEN a ELSE b

\* a / b rounded to the nearest integer (b > 0), as a float division rounds.
DivRound(a, b) ==
  IF a >= 0 THEN (2 * a + b) \div (2 * b) ELSE -((2 * (-a) + b) \div (2 * b))

RECURSIVE ISqrt(_)
ISqrt(n) ==
  IF n < 2 THEN n
  ELSE LET s == 2 * ISqrt(n \div 4)
           l == s + 1
       IN IF l > n \div l THEN s ELSE l

\* math.sqrt, rounded to the nearest representable value.
Sqrt(n) == LET r == ISqrt(n) IN IF n - r * r > r THEN r + 1 ELSE r

\* round(x, 2) for x >= 0: to the nearest multiple of 0.01, ties to even.
Round2(x) ==
  LET step == FP \div 100
      q == x \div step
      rem == x % step
  IN IF 2 * rem < step THEN q * step
     ELSE IF 2 * rem > step THEN (q + 1) * step
     ELSE IF q % 2 = 0 THEN q * step ELSE (q + 1) * step

RECURSIVE SeqMin(_)
SeqMin(s) == IF Len(s) = 1 THEN s[1] ELSE Min2(s[1], SeqMin(Tail(s)))
RECURSIVE SeqMax(_)
SeqMax(s) == IF Len(s) = 1 THEN s[1] ELSE Max2(s[1], SeqMax(Tail(s)))

\* list.sort() of a list of numbers (insertion into the sorted tail).
RECURSIVE Insert(_, _)
Insert(v, s) ==
  IF s = <<>> THEN <<v>>
  ELSE IF v <= s[1] THEN <<v>> \o s ELSE <<s[1]>> \o Insert(v, Tail(s))
RECURSIVE Sort(_)
Sort(s) == IF s = <<>> THEN <<>> ELSE Insert(s[1], Sort(Tail(s)))

\* --------------------------------------------------------------- geometry
Pt(x, y) == [x |-> x, y |-> y]

distance(p1, p2) ==
  LET dx == p1.x - p2.x
      dy == p1.y - p2.y
  IN Sqrt(dx * dx + dy * dy)

\* Mutant of points_close: a distance equal to the tolerance is close.
PointsCloseOrEqual(p1, p2, tolerance) == distance(p1, p2) <= tolerance

points_close(p1, p2, tolerance) == distance(p1, p2) < tolerance

\* The result of segments_intersect: (intersects, shared_length), or the
\* ZeroDivisionError of a division by a zero segment length.
SegResult(b, l) == [raised |-> FALSE, intersects |-> b, shared_length |-> l]
ZeroDivisionError == [raised |-> TRUE, intersects |-> FALSE, shared_length |-> 0]

\* Mutant of BoxesApart: no pair of segments is rejected by its boxes.
BoxesNeverApart(a1, a2, b1, b2, tolerance) == FALSE

\* The quick bounding box check: the boxes of the two segments, each expanded
\* by the tolerance, do not overlap.
BoxesApart(a1, a2, b1, b2, tolerance) ==
  LET a_min_x == Min2(a1.x, a2.x) - tolerance
      a_max_x == Max2(a1.x, a2.x) + tolerance
      a_min_y == Min2(a1.y, a2.y) - tolerance
      a_max_y == Max2(a1.y, a2.y) + tolerance
      b_min_x == Min2(b1.x, b2.x) - tolerance
      b_max_x == Max2(b1.x, b2.x) + tolerance
      b_min_y == Min2(b1.y, b2.y) - tolerance
      b_max_y == Max2(b1.y, b2.y) + tolerance
  IN \/ a_max_x < b_min_x \/ b_max_x < a_min_x
     \/ a_max_y < b_min_y \/ b_max_y < a_min_y

\* Mutant of LongOverlap: any positive overlap is returned.
PositiveOverlap(overlap_length, tolerance) == overlap_length > 0

\* if overlap_length > tolerance
LongOverlap(overlap_length, tolerance) == overlap_length > tolerance

segments_intersect(a1, a2, b1, b2, tolerance) ==
  LET endpoints_close ==
        \/ points_close(a1, b1, tolerance)
        \/ points_close(a1, b2, tolerance)
        \/ points_close(a2, b1, tolerance)
        \/ points_close(a2, b2, tolerance)
      dx_a == a2.x - a1.x
      dy_a == a2.y - a1.y
      dx_b == b2.x - b1.x
      dy_b == b2.y - b1.y
      len_a == Sqrt(dx_a * dx_a + dy_a * dy_a)
      len_b == Sqrt(dx_b * dx_b + dy_b * dy_b)
      nx_a == DivRound(dx_a * NS, len_a)
      ny_a == DivRound(dy_a * NS, len_a)
      nx_b == DivRound(dx_b * NS, len_b)
      ny_b == DivRound(dy_b * NS, len_b)
      cross == Abs(nx_a * ny_b - ny_a * nx_b)
      proj_a1 == 0
      proj_a2 == len_a
      proj_b1 == DivRound((b1.x - a1.x) * nx_a + (b1.y - a1.y) * ny_a, NS)
      proj_b2 == DivRound((b2.x - a1.x) * nx_a + (b2.y - a1.y) * ny_a, NS)
      perp_dist_b1 ==
        Abs(DivRound((b1.x - a1.x) * (-ny_a) + (b1.y - a1.y) * nx_a, NS))
      perp_dist_b2 ==
        Abs(DivRound((b2.x - a1.x) * (-ny_a) + (b2.y - a1.y) * nx_a, NS))
      overlap_start == Max2(proj_a1, Min2(proj_b1, proj_b2))
      overlap_end == Min2(proj_a2, Max2(proj_b1, proj_b2))
      overlap_length == Max2(0, overlap_end - overlap_start)
  IN IF BoxesApart(a1, a2, b1, b2, tolerance)
     THEN SegResult(FALSE, 0)
     ELSE IF len_a < tolerance \/ len_b < tolerance
     THEN SegResult(endpoints_close, 0)
     ELSE IF len_a = 0 \/ len_b = 0
     THEN ZeroDivisionError
     ELSE IF /\ cross < CrossThresholdPercent * (NS \div 10) * (NS \div 10)
             /\ perp_dist_b1 < tolerance /\ perp_dist_b2 < tolerance
             /\ LongOverlap(overlap_length, tolerance)
     THEN SegResult(TRUE, overlap_length)
     ELSE IF endpoints_close THEN SegResult(TRUE, 0)
     ELSE SegResult(FALSE, 0)

\* A boundary is a cyclic point list: edge k joins point k to point (k+1) mod n.
EdgeStart(boundary, k) == boundary[k + 1]
\* Mutant of EdgeEnd: the edge that closes the boundary is forgotten.
EdgeEndNoWrap(boundary, k) == boundary[Min2(k + 2, Len(boundary))]
EdgeEnd(boundary, k) == boundary[((k + 1) % Len(boundary)) + 1]

\* The k-th edge pair in the order of the two nested loops (i outer, j inner).
EdgePairTest(boundary1, boundary2, tolerance, k) ==
  LET i == k \div Len(boundary2)
      j == k % Len(boundary2)
  IN segments_intersect(EdgeStart(boundary1, i), EdgeEnd(boundary1, i),
                        EdgeStart(boundary2, j), EdgeEnd(boundary2, j), tolerance)

Returned(v) == [raised |-> FALSE, value |-> v]
Raised == [raised |-> TRUE, value |-> 0]

\* Mutant of BorderLengthFrom: the loops end at the first positive overlap.
RECURSIVE BorderLengthFirstHit(_, _, _, _, _)
BorderLengthFirstHit(boundary1, boundary2, tolerance, k, total_length) ==
  IF k >= Len(boundary1) * Len(boundary2) THEN Returned(total_length)
  ELSE LET r == EdgePairTest(boundary1, boundary2, tolerance, k)
       IN IF r.raised THEN Raised
          ELSE IF r.intersects /\ r.shared_length > 0
          THEN Returned(total_length + r.shared_length)
          ELSE BorderLengthFirstHit(boundary1, boundary2, tolerance, k + 1,
                                    total_length)

RECURSIVE BorderLengthFrom(_, _, _, _, _)
BorderLengthFrom(boundary1, boundary2, tolerance, k, total_length) ==
  IF k >= Len(boundary1) * Len(boundary2) THEN Returned(total_length)
  ELSE LET r == EdgePairTest(boundary1, boundary2, tolerance, k)
       IN IF r.raised THEN Raised
          ELSE BorderLengthFrom(boundary1, boundary2, tolerance, k + 1,
                 IF r.intersects /\ r.shared_length > 0
                 THEN total_length + r.shared_length ELSE total_length)

calculate_border_length(boundary1, boundary2, tolerance) ==
  BorderLengthFrom(boundary1, boundary2, tolerance, 0, 0)

RECURSIVE AreNeighborsFrom(_, _, _, _)
AreNeighborsFrom(boundary1, boundary2, tolerance, k) ==
  IF k >= Len(boundary1) * Len(boundary2) THEN Returned(FALSE)
  ELSE LET r == EdgePairTest(boundary1, boundary2, tolerance, k)
       IN IF r.raised THEN Raised
          ELSE IF r.intersects THEN Returned(TRUE)
          ELSE AreNeighborsFrom(boundary1, boundary2, tolerance, k + 1)

\* Mutant of are_neighbors: only the closing edge of boundary1 is compared.
AreNeighborsClosingEdge(boundary1, boundary2, tolerance) ==
  AreNeighborsFrom(boundary1, boundary2, tolerance,
                   (Len(boundary1) - 1) * Len(boundary2))

are_neighbors(boundary1, boundary2, tolerance) ==
  AreNeighborsFrom(boundary1, boundary2, tolerance, 0)

\* province.get('boundary', [])
GetBoundary(province) ==
  IF province.boundary = NoField THEN <<>> ELSE province.boundary

\* Mutant of ValidBoundary: len(boundary) < 2.
ValidBoundaryTwoPoints(province) == Len(GetBoundary(province)) >= 2

ValidBoundary(province) == Len(GetBoundary(province)) >= MinBoundaryPoints

\* The diagonal of the bounding box of a boundary.
Diagonal(boundary) ==
  LET xs == [k \in 1..Len(boundary) |-> boundary[k].x]
      ys == [k \in 1..Len(boundary) |-> boundary[k].y]
      width == SeqMax(xs) - SeqMin(xs)
      height == SeqMax(ys) - SeqMin(ys)
  IN Sqrt(width * width + height * height)

\* Mutant of Diagonals: only a province without any point is skipped.
RECURSIVE DiagonalsOfAll(_)
DiagonalsOfAll(provinces) ==
  IF provinces = <<>> THEN <<>>
  ELSE IF Len(GetBoundary(provinces[1])) = 0
  THEN DiagonalsOfAll(Tail(provinces))
  ELSE <<Diagonal(GetBoundary(provinces[1]))>>
       \o DiagonalsOfAll(Tail(provinces))

\* The diagonals list, in province order, before it is sorted.
RECURSIVE Diagonals(_)
Diagonals(provinces) ==
  IF provinces = <<>> THEN <<>>
  ELSE IF ~ValidBoundary(provinces[1]) THEN Diagonals(Tail(provinces))
  ELSE <<Diagonal(GetBoundary(provinces[1]))>> \o Diagonals(Tail(provinces))

\* Mutant of Median: the lower of the two middle elements of an even count.
MedianLowerMiddle(diagonals) == Sort(diagonals)[(Len(diagonals) + 1) \div 2]

\* diagonals[len(diagonals) // 2] of the sorted list (0-based index).
Median(diagonals) == Sort(diagonals)[(Len(diagonals) \div 2) + 1]

\* tolerance = median * 0.005
ToleranceOfMedian(median) == DivRound(median * ToleranceFactorPerMille, 1000)

calculate_adaptive_tolerance(provinces) ==
  LET diagonals == Diagonals(provinces)
  IN IF diagonals = <<>> THEN FallbackTolerance
     ELSE ToleranceOfMedian(Median(diagonals))

\* ----------------------------------------------------------------- inputs
Square(x, y, s) == <<Pt(x, y), Pt(x + s, y), Pt(x + s, y + s), Pt(x, y + s)>>

\* The boundaries an input province may have (10 game units = 2000).
\*   west, east : two squares sharing one full edge
\*   tri        : shares an edge with west, meets east in one point only
\*   dot        : three times the same point (every edge has length zero)
\*   line       : two points only;  nofield : no boundary field at all
\*   big        : a rectangle of 120 x 160 game units (diagonal 200)
\*   square1, square2 : the unit squares (0,0)-(1,1) and (1,0)-(2,1)
\*   square5    : the unit square shifted to start at x = 5
\*   corner, wedge : a unit square and a triangle that meet square1, and each
\*                other, in the point (1,1) only
\*   speck      : three times the point (5,5), away from every other shape
\*   step       : square1 with one more point in the middle of its right edge
\*   half       : square2 moved up by 0.5
\*   long, tilted : two triangles on either side of the line y = 10; the
\*                edge of tilted from (1,10) to (11,10.05) runs along the
\*                edge of long from (0,10) to (40,10), at a slope of 0.005
Shapes ==
  [west    |-> Square(0, 0, 2000),
   east    |-> Square(2000, 0, 2000),
   tri     |-> <<Pt(0, 2000), Pt(2000, 2000), Pt(0, 4000)>>,
   dot     |-> <<Pt(0, 0), Pt(0, 0), Pt(0, 0)>>,
   line    |-> <<Pt(0, 0), Pt(2000, 0)>>,
   nofield |-> NoField,
   big     |-> <<Pt(0, 0), Pt(24000, 0), Pt(24000, 32000), Pt(0, 32000)>>,
   square1 |-> Square(0, 0, FP),
   square2 |-> Square(FP, 0, FP),
   square5 |-> Square(5 * FP, 0, FP),
   corner  |-> Square(FP, FP, FP),
   wedge   |-> <<Pt(FP, FP), Pt(0, 2 * FP), Pt(FP \div 2, 2 * FP)>>,
   speck   |-> <<Pt(5 * FP, 5 * FP), Pt(5 * FP, 5 * FP), Pt(5 * FP, 5 * FP)>>,
   step    |-> <<Pt(0, 0), Pt(FP, 0), Pt(FP, FP \div 2), Pt(FP, FP), Pt(0, FP)>>,
   half    |-> Square(FP, FP \div 2, FP),
   long    |-> <<Pt(0, 10 * FP), Pt(40 * FP, 10 * FP), Pt(20 * FP, 5 * FP)>>,
   tilted  |-> <<Pt(FP, 10 * FP), Pt(11 * FP, 10 * FP + FP \div 20),
                 Pt(6 * FP, 15 * FP)>>]

\* The shapes of the maps the builders are run on.
MapShapeNames == {"west", "east", "tri", "dot", "line", "nofield"}
\* The shapes of the province lists the tolerance estimator is applied to.
EstimatorShapeNames == {"west", "tri", "dot", "line", "nofield", "big"}

\* The shapes of the end-to-end scenarios.
ScenarioShapeNames ==
  {"square1", "square2", "square5", "corner", "wedge", "speck"}

\* The boundaries the geometry routines are applied to, two at a time.
GeometryShapeNames ==
  {"square1", "square2", "step", "half", "long", "tilted", "dot"}
\* The tolerances they are given: 0, 0.01, 0.1, 0.5 and 1.0.
GeometryTolerances == {0, FP \div 100, FP \div 10, FP \div 2, FP}

\* The tolerance argument: None (derive it), or a supplied value >= 0.
ToleranceArgs == {None, 0}
\* The tolerances the scenarios are run with: 0, 0.01, 0.5 and 1.0.
ScenarioTolerances == {0, FP \div 100, FP \div 2, FP}

Builders == {"add_adjacencies_to_map", "recalculate_all_adjacencies"}

\* The id of the k-th province of an input map: unique, not the list position.
InputId(k) == 10 * k + 1

\* A neighbor entry an earlier pass over an earlier version of the map left.
StaleEntry == [id |-> 999, border_length |-> 1]

MakeProvinces(names) ==
  [k \in 1..Len(names) |->
     [id |-> InputId(k), name |-> names[k], boundary |-> Shapes[names[k]],
      neighbors |-> <<StaleEntry>>]]

SeqsUpTo(S, n) == UNION {[1..m -> S] : m \in 0..n}

\* The sequences of up to n different elements of S.
DistinctSeqsUpTo(S, n) ==
  {s \in SeqsUpTo(S, n) : \A a, b \in 1..Len(s) : a # b => s[a] # s[b]}

\* ------------------------------------------------------------------ state
VARIABLES
  provinces,          \* the province list of the loaded map
  tolerance_arg,      \* the tolerance parameter: None or a number
  tolerance,          \* the tolerance in use (None before it is set)
  builder,            \* which of the two builders runs
  pc,                 \* start, sweep, done, rejected, raised; estimate(d)
  i, j,               \* the loop indices of the sweep (1-based)
  total_adjacencies,
  max_neighbors,
  isolated_provinces, \* the names collected by the statistics loop
  run,                \* the number of the pass being run
  input_provinces,    \* history: the province list the current pass started on
  first_neighbors,    \* history: the neighbor lists the first pass left
  examined,           \* history: index pairs handed to are_neighbors
  quick_passed,       \* history: index pairs for which are_neighbors was true
  measured,           \* history: index pairs handed to calculate_border_length
  registered,         \* history: the registrations of this pass, in order
  first_tolerance,    \* history: the tolerance the first pass used
  map_region,         \* the fields of the map record other than its provinces
  map_file,           \* the map file on disk: Absent, or the map it holds
  backup_file,        \* the .json.backup file next to it
  merger,             \* the merge operation that runs ("none" outside a merge)
  sources,            \* the source maps of a merge, in merge-list order
  source_index,       \* the position of the merge loop in sources (1-based)
  province_id         \* the next id the merge assigns

\* The state of a merge, and the state of the files.
merge_state == <<merger, sources, source_index, province_id>>
files == <<map_region, map_file, backup_file>>

vars == <<provinces, tolerance_arg, tolerance, builder, pc, i, j,
          total_adjacencies, max_neighbors, isolated_provinces, run,
          input_provinces, first_neighbors, examined, quick_passed, measured,
          registered, first_tolerance, merge_state, files>>

NeighborLists(ps) == [k \in 1..Len(ps) |-> ps[k].neighbors]

\* A file is the sequence of the maps it holds: none when it does not exist,
\* one when it does.
Absent == <<>>

\* data['map_region'] of a loaded map, without its provinces.
InputRegion ==
  [id |-> "country_real", name |-> "Country",
   description |-> "Country with real geographic boundaries",
   bounds |-> [min_x |-> 0, max_x |-> 4000, min_y |-> 0, max_y |-> 4000]]

\* json.dump(data, f): the file that holds the map.
MapData(region, ps) == <<[map_region |-> region, provinces |-> ps]>>

\* No merge runs: the builder is called on one loaded map.
NoMerge ==
  /\ merger = "none"
  /\ sources = <<>>
  /\ source_index = 0
  /\ province_id = 0

\* The map was loaded from its file, which has no backup yet.
InputFiles ==
  /\ map_region = InputRegion
  /\ map_file = MapData(InputRegion, provinces)
  /\ backup_file = Absent

InitRest ==
  /\ tolerance = None
  /\ first_tolerance = None
  /\ i = 0 /\ j = 0
  /\ total_adjacencies = 0
  /\ max_neighbors = 0
  /\ isolated_provinces = <<>>
  /\ run = 1
  /\ input_provinces = provinces
  /\ first_neighbors = <<>>
  /\ examined = {} /\ quick_passed = {} /\ measured = {}
  /\ registered = <<>>

Init ==
  /\ \E names \in SeqsUpTo(MapShapeNames, MaxProvinces) :
       provinces = MakeProvinces(names)
  /\ tolerance_arg \in ToleranceArgs
  /\ builder \in Builders
  /\ pc = "start"
  /\ InitRest
  /\ NoMerge
  /\ InputFiles

\* ---------------------------------------------------------------- actions
\* Mutant of ClearNeighbors: only the provinces the sweep will visit are cleared.
ClearValidOnly(ps) ==
  [k \in 1..Len(ps) |->
     IF ValidBoundary(ps[k]) THEN [ps[k] EXCEPT !.neighbors = <<>>] ELSE ps[k]]

\* Mutant of ClearNeighbors: the provinces are re-identified by position.
ClearAndReindex(ps) ==
  [k \in 1..Len(ps) |-> [ps[k] EXCEPT !.neighbors = <<>>, !.id = k]]

\* Mutant of ClearNeighbors: recalculate_all_adjacencies clears nothing.
ClearInMapBuilderOnly(ps) ==
  IF builder = "add_adjacencies_to_map"
  THEN [k \in 1..Len(ps) |-> [ps[k] EXCEPT !.neighbors = <<>>]]
  ELSE ps

\* Mutant of ClearNeighbors: nothing is cleared.
KeepNeighbors(ps) == ps

\* for province in provinces: province['neighbors'] = []
ClearNeighbors(ps) == [k \in 1..Len(ps) |-> [ps[k] EXCEPT !.neighbors = <<>>]]

\* Mutant of InnerStart: range(i, len(provinces)).
InnerStartAtSelf(a) == a

\* range(i + 1, len(provinces)): the first partner of province i.
InnerStart(a) == a + 1

\* add_adjacencies_to_map without provinces: "ERROR: No provinces", return.
RejectEmpty ==
  /\ pc = "start"
  /\ builder = "add_adjacencies_to_map"
  /\ provinces = <<>>
  /\ pc' = "rejected"
  /\ UNCHANGED <<provinces, tolerance_arg, tolerance, builder, i, j,
                 total_adjacencies, max_neighbors, isolated_provinces, run,
                 input_provinces, first_neighbors, examined, quick_passed,
                 measured, registered>>
  /\ UNCHANGED <<first_tolerance, merge_state, files>>

\* The tolerance is derived when none is given, every neighbor list is
\* cleared, the counters are reset and the sweep starts at the first pair.
Begin ==
  /\ pc = "start"
  /\ builder = "add_adjacencies_to_map" => provinces # <<>>
  /\ tolerance' = IF tolerance_arg = None
                  THEN calculate_adaptive_tolerance(provinces)
                  ELSE tolerance_arg
  /\ provinces' = ClearNeighbors(provinces)
  /\ total_adjacencies' = 0
  /\ max_neighbors' = 0
  /\ isolated_provinces' = <<>>
  /\ i' = 1 /\ j' = InnerStart(1)
  /\ pc' = "sweep"
  /\ UNCHANGED <<tolerance_arg, builder, run, input_provinces,
                 first_neighbors, examined, quick_passed, measured, registered>>
  /\ UNCHANGED <<first_tolerance, merge_state, files>>

InSweep == pc = "sweep" /\ i <= Len(provinces)
InPair == InSweep /\ ValidBoundary(provinces[i]) /\ j <= Len(provinces)

\* len(boundary1) < 3: continue with the next province.
SkipProvince ==
  /\ InSweep
  /\ ~ValidBoundary(provinces[i])
  /\ i' = i + 1 /\ j' = InnerStart(i + 1)
  /\ UNCHANGED <<provinces, tolerance_arg, tolerance, builder, pc,
                 total_adjacencies, max_neighbors, isolated_provinces, run,
                 input_provinces, first_neighbors, examined, quick_passed,
                 measured, registered>>
  /\ UNCHANGED <<first_tolerance, merge_state, files>>

\* The inner loop is exhausted: the next province.
NextProvince ==
  /\ InSweep
  /\ ValidBoundary(provinces[i])
  /\ j > Len(provinces)
  /\ i' = i + 1 /\ j' = InnerStart(i + 1)
  /\ UNCHANGED <<provinces, tolerance_arg, tolerance, builder, pc,
                 total_adjacencies, max_neighbors, isolated_provinces, run,
                 input_provinces, first_neighbors, examined, quick_passed,
                 measured, registered>>
  /\ UNCHANGED <<first_tolerance, merge_state, files>>

\* len(boundary2) < 3: continue with the next partner.
SkipPartner ==
  /\ InPair
  /\ ~ValidBoundary(provinces[j])
  /\ j' = j + 1
  /\ UNCHANGED <<provinces, tolerance_arg, tolerance, builder, pc, i,
                 total_adjacencies, max_neighbors, isolated_provinces, run,
                 input_provinces, first_neighbors, examined, quick_passed,
                 measured, registered>>
  /\ UNCHANGED <<first_tolerance, merge_state, files>>

\* Mutant of SignificantBorder: border_length >= tolerance.
SignificantBorderOrEqual(border_length, tol) == border_length >= tol

\* Mutant of SignificantBorder: border_length > 2 * tolerance.
SignificantBorderTwice(border_length, tol) == border_length > 2 * tol

\* Mutant of SignificantBorder: the threshold is dropped.
AnyBorder(border_length, tol) == border_length >= 0

\* if border_length > tolerance
SignificantBorder(border_length, tol) == border_length > tol

NeighborEntry(id, border_length) ==
  [id |-> id, border_length |-> Round2(border_length)]

\* Mutant of AppendBoth: the mirror entry is forgotten.
AppendFirstOnly(ps, a, b, border_length) ==
  [ps EXCEPT
     ![a].neighbors = Append(@, NeighborEntry(ps[b].id, border_length))]

\* Mutant of AppendBoth: the first province gets its entry twice.
AppendFirstTwice(ps, a, b, border_length) ==
  [ps EXCEPT
     ![a].neighbors = Append(Append(@, NeighborEntry(ps[b].id, border_length)),
                             NeighborEntry(ps[b].id, border_length)),
     ![b].neighbors = Append(@, NeighborEntry(ps[a].id, border_length))]

\* The two appends of a registered pair.
AppendBoth(ps, a, b, border_length) ==
  [ps EXCEPT
     ![a].neighbors = Append(@, NeighborEntry(ps[b].id, border_length)),
     ![b].neighbors = Append(@, NeighborEntry(ps[a].id, border_length))]

\* Mutant of QuickReject: the border length is measured all the same.
QuickRejectMeasured(qc) ==
  /\ qc = Returned(FALSE)
  /\ examined' = examined \cup {<<i, j>>}
  /\ measured' = measured \cup {<<i, j>>}
  /\ j' = j + 1
  /\ UNCHANGED <<provinces, tolerance_arg, tolerance, builder, pc, i,
                 total_adjacencies, max_neighbors, isolated_provinces, run,
                 input_provinces, first_neighbors, quick_passed, registered>>
  /\ UNCHANGED <<first_tolerance, merge_state, files>>

\* not are_neighbors(...): continue.
QuickReject(qc) ==
  /\ qc = Returned(FALSE)
  /\ examined' = examined \cup {<<i, j>>}
  /\ j' = j + 1
  /\ UNCHANGED <<provinces, tolerance_arg, tolerance, builder, pc, i,
                 total_adjacencies, max_neighbors, isolated_provinces, run,
                 input_provinces, first_neighbors, quick_passed, measured,
                 registered>>
  /\ UNCHANGED <<first_tolerance, merge_state, files>>

\* The quick check passed and the border length does not exceed the tolerance.
NoSignificantBorder(qc, bl) ==
  /\ qc = Returned(TRUE)
  /\ ~bl.raised
  /\ ~SignificantBorder(bl.value, tolerance)
  /\ examined' = examined \cup {<<i, j>>}
  /\ quick_passed' = quick_passed \cup {<<i, j>>}
  /\ measured' = measured \cup {<<i, j>>}
  /\ j' = j + 1
  /\ UNCHANGED <<provinces, tolerance_arg, tolerance, builder, pc, i,
                 total_adjacencies, max_neighbors, isolated_provinces, run,
                 input_provinces, first_neighbors, registered>>
  /\ UNCHANGED <<first_tolerance, merge_state, files>>

\* border_length > tolerance: both provinces get the entry.
RegisterNeighbors(qc, bl) ==
  /\ qc = Returned(TRUE)
  /\ ~bl.raised
  /\ SignificantBorder(bl.value, tolerance)
  /\ provinces' = AppendBoth(provinces, i, j, bl.value)
  /\ total_adjacencies' = total_adjacencies + 1
  /\ examined' = examined \cup {<<i, j>>}
  /\ quick_passed' = quick_passed \cup {<<i, j>>}
  /\ measured' = measured \cup {<<i, j>>}
  /\ registered' = Append(registered, [a |-> i, b |-> j, length |-> bl.value])
  /\ j' = j + 1
  /\ UNCHANGED <<tolerance_arg, tolerance, builder, pc, i, max_neighbors,
                 isolated_provinces, run, input_provinces, first_neighbors>>
  /\ UNCHANGED <<first_tolerance, merge_state, files>>

\* A ZeroDivisionError leaves segments_intersect and ends the pass.
RaiseError(qc, bl) ==
  /\ \/ qc.raised
     \/ qc = Returned(TRUE) /\ bl.raised
  /\ examined' = examined \cup {<<i, j>>}
  /\ quick_passed' = IF qc.raised THEN quick_passed
                     ELSE quick_passed \cup {<<i, j>>}
  /\ measured' = IF qc.raised THEN measured ELSE measured \cup {<<i, j>>}
  /\ pc' = "raised"
  /\ UNCHANGED <<provinces, tolerance_arg, tolerance, builder, i, j,
                 total_adjacencies, max_neighbors, isolated_provinces, run,
                 input_provinces, first_neighbors, registered>>
  /\ UNCHANGED <<first_tolerance, merge_state, files>>

\* The body of the inner loop for a pair of valid boundaries: the quick
\* check, then (only when it passed) the border length and the threshold.
PairOutcome(qc, bl) ==
  \/ QuickReject(qc)
  \/ NoSignificantBorder(qc, bl)
  \/ RegisterNeighbors(qc, bl)
  \/ RaiseError(qc, bl)

ExaminePair ==
  /\ InPair
  /\ ValidBoundary(provinces[j])
  /\ PairOutcome(
       are_neighbors(GetBoundary(provinces[i]), GetBoundary(provinces[j]),
                     tolerance),
       calculate_border_length(GetBoundary(provinces[i]),
                               GetBoundary(provinces[j]), tolerance))

\* Mutant of MaxCount: the running maximum is replaced by the last count.
MaxCountOfLast(ps) == IF ps = <<>> THEN 0 ELSE Len(ps[Len(ps)].neighbors)

RECURSIVE MaxCount(_)
MaxCount(ps) ==
  IF ps = <<>> THEN 0 ELSE Max2(Len(ps[1].neighbors), MaxCount(Tail(ps)))

\* Mutant of IsolatedNames: a province the sweep skipped is not reported.
RECURSIVE IsolatedValidOnly(_)
IsolatedValidOnly(ps) ==
  IF ps = <<>> THEN <<>>
  ELSE (IF Len(ps[1].neighbors) = 0 /\ ValidBoundary(ps[1])
        THEN <<ps[1].name>> ELSE <<>>)
       \o IsolatedValidOnly(Tail(ps))

RECURSIVE IsolatedNames(_)
IsolatedNames(ps) ==
  IF ps = <<>> THEN <<>>
  ELSE (IF Len(ps[1].neighbors) = 0 THEN <<ps[1].name>> ELSE <<>>)
       \o IsolatedNames(Tail(ps))

\* Mutant of BackupOf: every save copies the map file over the backup.
BackupAlways(backup, file) == file

\* if not backup_file.exists(): shutil.copy2(map_file, backup_file)
BackupOf(backup, file) == IF backup = Absent THEN file ELSE backup

\* The sweep is over: the statistics loop; add_adjacencies_to_map then makes
\* the backup and saves the map, and the function returns.
\* (recalculate_all_adjacencies reports the number of isolated provinces, the
\* length of this list, skips the statistics of an empty province list,
\* which leaves the same values, and writes no file.)
Statistics ==
  /\ pc = "sweep"
  /\ i > Len(provinces)
  /\ max_neighbors' = MaxCount(provinces)
  /\ isolated_provinces' = IsolatedNames(provinces)
  /\ pc' = "done"
  /\ IF builder = "add_adjacencies_to_map"
     THEN /\ backup_file' = BackupOf(backup_file, map_file)
          /\ map_file' = MapData(map_region, provinces)
          /\ UNCHANGED map_region
     ELSE UNCHANGED files
  /\ UNCHANGED <<provinces, tolerance_arg, tolerance, builder, i, j,
                 total_adjacencies, run, input_provinces, first_neighbors,
                 examined, quick_passed, measured, registered>>
  /\ UNCHANGED <<first_tolerance, merge_state>>

\* The builder is run again on the map the pass left, with the same argument.
RunAgain ==
  /\ pc = "done"
  /\ run < MaxRuns
  /\ run' = run + 1
  /\ first_neighbors' = IF run = 1 THEN NeighborLists(provinces)
                        ELSE first_neighbors
  /\ input_provinces' = provinces
  /\ tolerance' = None
  /\ i' = 0 /\ j' = 0
  /\ examined' = {} /\ quick_passed' = {} /\ measured' = {}
  /\ registered' = <<>>
  /\ pc' = "start"
  /\ first_tolerance' = IF run = 1 THEN tolerance ELSE first_tolerance
  /\ UNCHANGED <<provinces, tolerance_arg, builder, total_adjacencies,
                 max_neighbors, isolated_provinces>>
  /\ UNCHANGED <<merge_state, files>>

Next ==
  \/ RejectEmpty
  \/ Begin
  \/ SkipProvince
  \/ NextProvince
  \/ SkipPartner
  \/ ExaminePair
  \/ Statistics
  \/ RunAgain

Spec == Init /\ [][Next]_vars

\* ------------------------------------------- the tolerance estimator alone
\* calculate_adaptive_tolerance applied to a province list.
EstimatorInit ==
  /\ \E names \in SeqsUpTo(EstimatorShapeNames, MaxProvinces) :
       provinces = MakeProvinces(names)
  /\ tolerance_arg = None
  /\ builder = "calculate_adaptive_tolerance"
  /\ pc = "estimate"
  /\ InitRest
  /\ NoMerge
  /\ InputFiles

Estimate ==
  /\ pc = "estimate"
  /\ tolerance' = calculate_adaptive_tolerance(provinces)
  /\ pc' = "estimated"
  /\ UNCHANGED <<provinces, tolerance_arg, builder, i, j, total_adjacencies,
                 max_neighbors, isolated_provinces, run, input_provinces,
                 first_neighbors, examined, quick_passed, measured, registered>>
  /\ UNCHANGED <<first_tolerance, merge_state, files>>

EstimatorNext == Estimate

EstimatorSpec == EstimatorInit /\ [][EstimatorNext]_vars

\* ----------------------------------------------- the end-to-end scenarios
\* A builder is run with a given tolerance on a map of scenario shapes, and
\* then again on the same provinces with a larger tolerance.
ScenarioInit ==
  /\ \E names \in DistinctSeqsUpTo(ScenarioShapeNames, MaxProvinces) :
       provinces = MakeProvinces(names)
  /\ tolerance_arg \in ScenarioTolerances
  /\ builder \in Builders
  /\ pc = "start"
  /\ InitRest
  /\ NoMerge
  /\ InputFiles

RunWithLargerTolerance ==
  /\ pc = "done"
  /\ run < MaxRuns
  /\ \E t \in ScenarioTolerances : t > tolerance /\ tolerance_arg' = t
  /\ run' = run + 1
  /\ first_neighbors' = IF run = 1 THEN NeighborLists(provinces)
                        ELSE first_neighbors
  /\ first_tolerance' = IF run = 1 THEN tolerance ELSE first_tolerance
  /\ input_provinces' = provinces
  /\ tolerance' = None
  /\ i' = 0 /\ j' = 0
  /\ examined' = {} /\ quick_passed' = {} /\ measured' = {}
  /\ registered' = <<>>
  /\ pc' = "start"
  /\ UNCHANGED <<provinces, builder, total_adjacencies, max_neighbors,
                 isolated_provinces, merge_state, files>>

ScenarioNext ==
  \/ Begin
  \/ NextProvince
  \/ ExaminePair
  \/ Statistics
  \/ RunWithLargerTolerance

ScenarioSpec == ScenarioInit /\ [][ScenarioNext]_vars

\* ------------------------------------------------- the geometry routines
\* are_neighbors and calculate_border_length are applied to two different
\* boundaries, in either order, by a builder run on a map of two provinces.
GeometryInit ==
  /\ \E names \in [1..2 -> GeometryShapeNames] :
       /\ names[1] # names[2]
       /\ provinces = MakeProvinces(names)
  /\ tolerance_arg \in GeometryTolerances
  /\ builder \in Builders
  /\ pc = "start"
  /\ InitRest
  /\ NoMerge
  /\ InputFiles

GeometryNext ==
  \/ Begin
  \/ NextProvince
  \/ ExaminePair
  \/ Statistics

GeometrySpec == GeometryInit /\ [][GeometryNext]_vars

\* ------------------------------------------------------ the two builders
OtherBuilder(b) ==
  IF b = "add_adjacencies_to_map" THEN "recalculate_all_adjacencies"
  ELSE "add_adjacencies_to_map"

\* After one builder has ended (returned, or raised), the other builder is
\* run on the province list as the first one got it, with the same tolerance
\* argument.
RunOtherBuilder ==
  /\ pc \in {"done", "rejected", "raised"}
  /\ run = 1
  /\ run < MaxRuns
  /\ builder' = OtherBuilder(builder)
  /\ provinces' = input_provinces
  /\ run' = run + 1
  /\ first_neighbors' = NeighborLists(provinces)
  /\ first_tolerance' = tolerance
  /\ tolerance' = None
  /\ i' = 0 /\ j' = 0
  /\ examined' = {} /\ quick_passed' = {} /\ measured' = {}
  /\ registered' = <<>>
  /\ pc' = "start"
  /\ UNCHANGED <<tolerance_arg, total_adjacencies, max_neighbors,
                 isolated_provinces, input_provinces, merge_state, files>>

BuildersNext ==
  \/ RejectEmpty
  \/ Begin
  \/ SkipProvince
  \/ NextProvince
  \/ SkipPartner
  \/ ExaminePair
  \/ Statistics
  \/ RunOtherBuilder

BuildersSpec == Init /\ [][BuildersNext]_vars

\* ------------------------------------------- a map without its degenerates
\* The provinces of ps with a boundary of at least 3 points, in map order.
RemoveDegenerates(ps) ==
  SelectSeq(ps, LAMBDA p : Len(GetBoundary(p)) >= MinBoundaryPoints)

\* After a pass over a map, the builder is run on the same map as it was
\* loaded, with every province of fewer than 3 boundary points removed
\* (the backup add_adjacencies_to_map made of the whole map stays).
RunWithoutDegenerates ==
  /\ pc = "done"
  /\ run = 1
  /\ run < MaxRuns
  /\ provinces' = RemoveDegenerates(input_provinces)
  /\ input_provinces' = provinces'
  /\ map_file' = MapData(map_region, provinces')
  /\ run' = run + 1
  /\ first_neighbors' = NeighborLists(RemoveDegenerates(provinces))
  /\ first_tolerance' = tolerance
  /\ tolerance' = None
  /\ i' = 0 /\ j' = 0
  /\ examined' = {} /\ quick_passed' = {} /\ measured' = {}
  /\ registered' = <<>>
  /\ pc' = "start"
  /\ UNCHANGED <<tolerance_arg, builder, total_adjacencies, max_neighbors,
                 isolated_provinces, map_region, backup_file, merge_state>>

RemovalNext ==
  \/ RejectEmpty
  \/ Begin
  \/ SkipProvince
  \/ NextProvince
  \/ SkipPartner
  \/ ExaminePair
  \/ Statistics
  \/ RunWithoutDegenerates

RemovalSpec == Init /\ [][RemovalNext]_vars

\* ---------------------------------------------------------------- merging
\* The four operations that concatenate source maps and renumber provinces:
\*   combine_maps                            src/tools/combine_maps.py
\*   update_combined_europe (main)           src/data/update_combined_europe.py
\*   generate_regional_map                   src/generate_regional_groups.py
\*   update_combined_europe_with_adjacencies (main)
Mergers ==
  {"combine_maps", "update_combined_europe", "generate_regional_map",
   "update_combined_europe_with_adjacencies"}

\* province_id = 100
FirstProvinceId == 100
\* float('inf'), larger than every coordinate.
Infinity == 1000000000

\* A province of a source map: its generator numbered the provinces of the
\* map from 100 in listing order, and add_adjacencies_to_map wrote the
\* neighbor list, computed within the source map alone.
SourceProvince(k, name, neighbors) ==
  [id |-> FirstProvinceId + k - 1, name |-> name, boundary |-> Shapes[name],
   neighbors |-> neighbors]

\* The source maps: two single-province maps, a map of two adjacent provinces
\* (each lists the other with their common border of 10.0), and a map of a
\* triangle and a degenerate province.
WestMap == <<SourceProvince(1, "west", <<>>)>>
EastMap == <<SourceProvince(1, "east", <<>>)>>
TwinMap ==
  <<SourceProvince(1, "west", <<[id |-> 101, border_length |-> 10 * FP]>>),
    SourceProvince(2, "east", <<[id |-> 100, border_length |-> 10 * FP]>>)>>
HillMap == <<SourceProvince(1, "tri", <<>>), SourceProvince(2, "line", <<>>)>>

\* The source files of a merge: a file that does not exist, a file json.load
\* cannot read, or a map file with its provinces.
SourceFiles ==
  {[file |-> "missing", provinces |-> <<>>],
   [file |-> "unreadable", provinces |-> <<>>],
   [file |-> "map", provinces |-> <<>>],
   [file |-> "map", provinces |-> WestMap],
   [file |-> "map", provinces |-> EastMap],
   [file |-> "map", provinces |-> TwinMap],
   [file |-> "map", provinces |-> HillMap]}

\* What loading a source does: combine_maps opens the file itself, the two
\* plain mergers skip a missing file only, update_combined_europe_with_
\* adjacencies also catches a failing json.load.
LoadOutcome(m, source) ==
  IF source.file = "map" THEN "loaded"
  ELSE IF m = "combine_maps" THEN "raised"
  ELSE IF source.file = "missing" THEN "skipped"
  ELSE IF m = "update_combined_europe_with_adjacencies" THEN "skipped"
  ELSE "raised"

\* Mutant of Renumber: the province keeps the id of its source map.
KeepSourceId(province, id) == province

\* province['id'] = province_id
Renumber(province, id) == [province EXCEPT !.id = id]

\* Mutant of NextProvinceId: the counter restarts with every province.
SameProvinceId(id) == FirstProvinceId

\* province_id += 1
NextProvinceId(id) == id + 1

\* The provinces of one source with their new ids, first of which is id.
RECURSIVE RenumberFrom(_, _)
RenumberFrom(ps, id) ==
  IF ps = <<>> THEN <<>>
  ELSE <<Renumber(ps[1], id)>> \o RenumberFrom(Tail(ps), NextProvinceId(id))

\* province_id after the provinces of one source.
RECURSIVE ProvinceIdAfter(_, _)
ProvinceIdAfter(ps, id) ==
  IF ps = <<>> THEN id ELSE ProvinceIdAfter(Tail(ps), NextProvinceId(id))

\* The points of all boundaries, in order.
RECURSIVE AllPoints(_)
AllPoints(ps) ==
  IF ps = <<>> THEN <<>> ELSE GetBoundary(ps[1]) \o AllPoints(Tail(ps))

\* calculate_combined_bounds; combine_maps keeps running minima and maxima
\* that start at plus and minus infinity.
calculate_combined_bounds(m, ps) ==
  LET pts == AllPoints(ps)
      xs == [k \in 1..Len(pts) |-> pts[k].x]
      ys == [k \in 1..Len(pts) |-> pts[k].y]
  IN IF pts = <<>>
     THEN IF m = "combine_maps"
          THEN [min_x |-> Infinity, max_x |-> -Infinity,
                min_y |-> Infinity, max_y |-> -Infinity]
          ELSE [min_x |-> 0, max_x |-> 0, min_y |-> 0, max_y |-> 0]
     ELSE [min_x |-> Round2(SeqMin(xs)), max_x |-> Round2(SeqMax(xs)),
           min_y |-> Round2(SeqMin(ys)), max_y |-> Round2(SeqMax(ys))]

\* len(countries_included): the sources loaded so far.
CountriesIncluded ==
  Cardinality({n \in 1..Len(sources) :
                 n < source_index /\ LoadOutcome(merger, sources[n]) = "loaded"})

\* The map_region of the combined map, without its provinces.
CombinedRegion(m, ps) ==
  [id |-> IF m = "generate_regional_map" THEN "northern_europe"
          ELSE "europe_combined",
   name |-> IF m = "combine_maps" THEN "Western Europe Combined"
            ELSE IF m = "generate_regional_map" THEN "Northern Europe"
            ELSE "Europe Combined",
   description |->
     IF m = "combine_maps" THEN <<"Combined map of multiple European countries">>
     ELSE IF m = "generate_regional_map" THEN <<"Scandinavia and Iceland">>
     ELSE IF m = "update_combined_europe"
     THEN <<"Combined map of all European countries", CountriesIncluded>>
     ELSE <<"Combined map of all European countries", CountriesIncluded,
            Len(ps)>>,
   bounds |-> calculate_combined_bounds(m, ps)]

\* No map is in memory before the combined map is built.
NoRegion ==
  [id |-> "", name |-> "", description |-> <<>>,
   bounds |-> [min_x |-> 0, max_x |-> 0, min_y |-> 0, max_y |-> 0]]

MergeInit ==
  /\ merger \in Mergers
  /\ sources \in SeqsUpTo(SourceFiles, MaxSources)
  /\ source_index = 1
  /\ province_id = FirstProvinceId
  /\ provinces = <<>>
  /\ tolerance_arg = None
  /\ builder = "recalculate_all_adjacencies"
  /\ pc = "merge"
  /\ InitRest
  /\ map_region = NoRegion
  /\ map_file = Absent
  /\ backup_file = Absent

InMerge == pc = "merge" /\ source_index <= Len(sources)
MergeEnded == pc = "merge" /\ source_index > Len(sources)

pass_state ==
  <<tolerance_arg, tolerance, builder, i, j, total_adjacencies, max_neighbors,
    isolated_provinces, run, first_neighbors, examined, quick_passed, measured,
    registered, first_tolerance>>

\* The source file is not there (or cannot be read): continue with the next.
SkipSource ==
  /\ InMerge
  /\ LoadOutcome(merger, sources[source_index]) = "skipped"
  /\ source_index' = source_index + 1
  /\ UNCHANGED <<provinces, input_provinces, pc, pass_state, merger, sources,
                 province_id, files>>

\* open or json.load raises and nothing catches it: the merge ends.
LoadRaises ==
  /\ InMerge
  /\ LoadOutcome(merger, sources[source_index]) = "raised"
  /\ pc' = "raised"
  /\ UNCHANGED <<provinces, input_provinces, pass_state, merge_state, files>>

\* Every province of the source gets the next id and joins all_provinces.
AddSource ==
  /\ InMerge
  /\ LoadOutcome(merger, sources[source_index]) = "loaded"
  /\ provinces' =
       provinces \o RenumberFrom(sources[source_index].provinces, province_id)
  /\ province_id' =
       ProvinceIdAfter(sources[source_index].provinces, province_id)
  /\ source_index' = source_index + 1
  /\ UNCHANGED <<input_provinces, pc, pass_state, merger, sources, files>>

\* if not all_provinces: return   (combine_maps has no such test)
NoProvincesFound ==
  /\ MergeEnded
  /\ merger # "combine_maps"
  /\ provinces = <<>>
  /\ pc' = "rejected"
  /\ UNCHANGED <<provinces, input_provinces, pass_state, merge_state, files>>

\* The three mergers that only concatenate write the combined map.
WriteMerged ==
  /\ MergeEnded
  /\ merger # "update_combined_europe_with_adjacencies"
  /\ merger = "combine_maps" \/ provinces # <<>>
  /\ map_region' = CombinedRegion(merger, provinces)
  /\ map_file' = MapData(CombinedRegion(merger, provinces), provinces)
  /\ pc' = "written"
  /\ UNCHANGED <<provinces, input_provinces, pass_state, merge_state,
                 backup_file>>

\* recalculate_all_adjacencies(all_provinces)
Recalculate ==
  /\ MergeEnded
  /\ merger = "update_combined_europe_with_adjacencies"
  /\ provinces # <<>>
  /\ input_provinces' = provinces
  /\ pc' = "start"
  /\ UNCHANGED <<provinces, pass_state, merge_state, files>>

\* After the pass: the combined map is built, the output file is backed up
\* when it is there and has no backup, and the map is written.
WriteCombined ==
  /\ pc = "done"
  /\ merger = "update_combined_europe_with_adjacencies"
  /\ map_region' = CombinedRegion(merger, provinces)
  /\ backup_file' = IF map_file = Absent THEN backup_file
                    ELSE BackupOf(backup_file, map_file)
  /\ map_file' = MapData(CombinedRegion(merger, provinces), provinces)
  /\ pc' = "written"
  /\ UNCHANGED <<provinces, input_provinces, pass_state, merge_state>>

MergeNext ==
  \/ SkipSource
  \/ LoadRaises
  \/ AddSource
  \/ NoProvincesFound
  \/ WriteMerged
  \/ Recalculate
  \/ Begin
  \/ SkipProvince
  \/ NextProvince
  \/ SkipPartner
  \/ ExaminePair
  \/ Statistics
  \/ WriteCombined

MergeSpec == MergeInit /\ [][MergeNext]_vars

\* ---------------------------------------------------- loading the map file
\* json.load(f) of a file that is not a map: no 'map_region' key.
NoRegionDocument == <<[type |-> "FeatureCollection"]>>
\* A map whose map_region has no 'provinces' key.
NoProvincesDocument == <<[map_region |-> InputRegion]>>

\* The files add_adjacencies_to_map may be given: the two above, a map with
\* an empty province list, and the maps of one or more provinces.
Documents ==
  {NoRegionDocument, NoProvincesDocument}
    \cup {MapData(InputRegion, MakeProvinces(names)) :
            names \in SeqsUpTo(MapShapeNames, MaxProvinces)}

\* data['map_region'].get('provinces', [])
GetProvinces(data) ==
  IF "provinces" \in DOMAIN data THEN data.provinces ELSE <<>>

\* add_adjacencies_to_map is called on a file it has yet to load, or the
\* merge main is about to read its sources.
LoadInit ==
  \/ /\ map_file \in Documents
     /\ backup_file = Absent
     /\ map_region = NoRegion
     /\ provinces = <<>>
     /\ tolerance_arg \in ToleranceArgs
     /\ builder = "add_adjacencies_to_map"
     /\ pc = "load"
     /\ InitRest
     /\ NoMerge
  \/ /\ MergeInit
     /\ merger = "update_combined_europe_with_adjacencies"

load_state ==
  <<provinces, tolerance_arg, tolerance, builder, i, j, total_adjacencies,
    max_neighbors, isolated_provinces, run, input_provinces, first_neighbors,
    examined, quick_passed, measured, registered, first_tolerance,
    merge_state>>

\* Mutant of RejectNoProvinces: the backup is made as soon as the file is
\* loaded, before the province list is looked at.
RejectAfterBackup ==
  /\ pc = "load"
  /\ "map_region" \in DOMAIN map_file[1]
  /\ GetProvinces(map_file[1]) = <<>>
  /\ pc' = "rejected"
  /\ backup_file' = BackupOf(backup_file, map_file)
  /\ UNCHANGED <<load_state, map_region, map_file>>

\* if 'map_region' not in data: "ERROR: No map_region", return.
RejectNoRegion ==
  /\ pc = "load"
  /\ "map_region" \notin DOMAIN map_file[1]
  /\ pc' = "rejected"
  /\ UNCHANGED <<load_state, files>>

\* if not provinces: "ERROR: No provinces", return.
RejectNoProvinces ==
  /\ pc = "load"
  /\ "map_region" \in DOMAIN map_file[1]
  /\ GetProvinces(map_file[1]) = <<>>
  /\ pc' = "rejected"
  /\ UNCHANGED <<load_state, files>>

\* The map has provinces: the builder goes on with them.
LoadMap ==
  /\ pc = "load"
  /\ "map_region" \in DOMAIN map_file[1]
  /\ GetProvinces(map_file[1]) # <<>>
  /\ provinces' = GetProvinces(map_file[1])
  /\ input_provinces' = GetProvinces(map_file[1])
  /\ map_region' = map_file[1].map_region
  /\ pc' = "start"
  /\ UNCHANGED <<tolerance_arg, tolerance, builder, i, j, total_adjacencies,
                 max_neighbors, isolated_provinces, run, first_neighbors,
                 examined, quick_passed, measured, registered,
                 first_tolerance, merge_state, map_file, backup_file>>

LoadNext ==
  \/ RejectNoRegion
  \/ RejectNoProvinces
  \/ LoadMap
  \/ SkipSource
  \/ AddSource
  \/ NoProvincesFound
  \/ Recalculate
  \/ Begin
  \/ SkipProvince
  \/ NextProvince
  \/ SkipPartner
  \/ ExaminePair
  \/ Statistics
  \/ WriteCombined

LoadSpec == LoadInit /\ [][LoadNext]_vars

\* ------------------------------------------------------------ properties
Indices == 1..Len(provinces)

HasEntry(province, id, border_length) ==
  \E k \in 1..Len(province.neighbors) :
    province.neighbors[k] = [id |-> id, border_length |-> border_length]

HasNeighbor(province, id) ==
  \E k \in 1..Len(province.neighbors) : province.neighbors[k].id = id

\* Every border length found in some neighbor list.
EntryLengths ==
  UNION {{provinces[p].neighbors[k].border_length :
            k \in 1..Len(provinces[p].neighbors)} : p \in Indices}

Degenerate(province) == Len(GetBoundary(province)) < MinBoundaryPoints
AllDegenerate == \A k \in Indices : Degenerate(provinces[k])
Terminated == pc \in {"done", "rejected", "raised"}

\* The entries the registrations regs give province k, in order.
RECURSIVE EntriesOf(_, _)
EntriesOf(k, regs) ==
  IF regs = <<>> THEN <<>>
  ELSE LET r == regs[1]
       IN (IF r.a = k
           THEN <<[id |-> provinces[r.b].id, border_length |-> Round2(r.length)]>>
           ELSE <<>>)
          \o (IF r.b = k
              THEN <<[id |-> provinces[r.a].id, border_length |-> Round2(r.length)]>>
              ELSE <<>>)
          \o EntriesOf(k, Tail(regs))

\* C1: after a pass the neighbor relation is symmetric with equal lengths:
\* p lists (q.id, L) if and only if q lists (p.id, L).
C1_Symmetry ==
  pc = "done" =>
    \A p \in Indices, q \in Indices, L \in EntryLengths :
      HasEntry(provinces[p], provinces[q].id, L)
        <=> HasEntry(provinces[q], provinces[p].id, L)

C1_Witness ==
  /\ pc = "done"
  /\ \E p \in Indices, q \in Indices, L \in EntryLengths :
       /\ p # q /\ L > 0
       /\ HasEntry(provinces[p], provinces[q].id, L)
       /\ HasEntry(provinces[q], provinces[p].id, L)

\* C2: after a pass no province lists its own id, and the sweep has only
\* examined pairs of list positions i < j.
C2_NoSelfAdjacency ==
  /\ pc = "done" =>
       \A p \in Indices : ~HasNeighbor(provinces[p], provinces[p].id)
  /\ \A pair \in examined : pair[1] < pair[2]

C2_Witness ==
  /\ pc = "done"
  /\ Cardinality(examined) >= 2
  /\ registered # <<>>

\* C3: a province with fewer than 3 boundary points (or without a boundary)
\* ends the pass with no neighbor and is nobody's neighbor, wherever it stands
\* in the list, and it is never handed to the geometry, so it cannot abort
\* the pass.
C3_DegenerateExcluded ==
  /\ pc = "done" =>
       \A p \in Indices :
         Degenerate(provinces[p]) =>
           /\ provinces[p].neighbors = <<>>
           /\ \A q \in Indices : ~HasNeighbor(provinces[q], provinces[p].id)
  /\ \A pair \in examined :
       ~Degenerate(provinces[pair[1]]) /\ ~Degenerate(provinces[pair[2]])
  /\ pc = "raised" => ~Degenerate(provinces[i]) /\ ~Degenerate(provinces[j])

C3_Witness ==
  /\ pc = "done"
  /\ Len(provinces) = 3
  /\ Degenerate(provinces[2])
  /\ HasNeighbor(provinces[1], provinces[3].id)

Registered(a, b) == HasNeighbor(provinces[a], provinces[b].id)

ShouldRegister(a, b) ==
  /\ ~Degenerate(provinces[a]) /\ ~Degenerate(provinces[b])
  /\ are_neighbors(GetBoundary(provinces[a]), GetBoundary(provinces[b]),
                   tolerance) = Returned(TRUE)
  /\ calculate_border_length(GetBoundary(provinces[a]),
       GetBoundary(provinces[b]), tolerance).value > tolerance

\* C4: a pair is registered if and only if the quick check succeeded and the
\* accumulated border length is strictly greater than the tolerance; a length
\* equal to the tolerance is not accepted.
C4_StrictThreshold ==
  pc = "done" =>
    /\ \A a \in Indices, b \in Indices :
         a < b => (Registered(a, b) <=> ShouldRegister(a, b))
    /\ ~SignificantBorder(tolerance, tolerance)

C4_Witness ==
  /\ pc = "done"
  /\ \E pair \in quick_passed : ~Registered(pair[1], pair[2])
  /\ \E pair \in quick_passed : Registered(pair[1], pair[2])
  /\ \E pair \in examined : pair \notin quick_passed

\* C5: every neighbor list (also that of a degenerate province) is cleared
\* before the first pair is examined: during and after the sweep a list holds
\* exactly the entries registered in this pass, none from the input.
C5_ClearedThenRecomputed ==
  pc \in {"sweep", "done", "raised"} =>
    \A p \in Indices : provinces[p].neighbors = EntriesOf(p, registered)

C5_Witness ==
  /\ pc = "done"
  /\ registered # <<>>
  /\ \E p \in Indices : Degenerate(provinces[p])
  /\ \A p \in Indices : input_provinces[p].neighbors # <<>>

\* C6: a second pass over the output of the first (same tolerance argument)
\* leaves the neighbor lists of the first pass.
C6_Idempotent ==
  (pc = "done" /\ run >= 2) => NeighborLists(provinces) = first_neighbors

C6_Witness ==
  /\ pc = "done" /\ run = 2
  /\ Len(registered) >= 2
  /\ NeighborLists(input_provinces) = first_neighbors

\* The diagonals of the provinces with a boundary of at least 3 points.
ValidIndices == {k \in Indices : ~Degenerate(provinces[k])}
DiagonalOf(k) == Diagonal(GetBoundary(provinces[k]))

\* d is the r-th smallest diagonal (r = 1 for the smallest): fewer than r
\* diagonals lie below it, and at least r are not above it.
IsRankElement(d, r) ==
  /\ \E k \in ValidIndices : DiagonalOf(k) = d
  /\ Cardinality({k \in ValidIndices : DiagonalOf(k) < d}) < r
  /\ Cardinality({k \in ValidIndices : DiagonalOf(k) <= d}) >= r

\* C7, as claimed: the estimator takes the middle diagonal, and of an even
\* number n of diagonals the lower middle one (the n/2-th smallest).  It does
\* not hold: the code selects sorted index n // 2 counted from 0.
C7_LowerMiddleClaimed ==
  (pc = "estimated" /\ ValidIndices # {}) =>
    \E k \in ValidIndices :
      /\ IsRankElement(DiagonalOf(k), (Cardinality(ValidIndices) + 1) \div 2)
      /\ tolerance = ToleranceOfMedian(DiagonalOf(k))

\* C7, amended: of n diagonals the estimator takes the (n div 2 + 1)-th
\* smallest: the middle one for odd n, the upper middle one for even n.
C7_UpperMiddle ==
  (pc = "estimated" /\ ValidIndices # {}) =>
    \E k \in ValidIndices :
      /\ IsRankElement(DiagonalOf(k), (Cardinality(ValidIndices) \div 2) + 1)
      /\ tolerance = ToleranceOfMedian(DiagonalOf(k))

C7_Witness ==
  /\ pc = "estimated"
  /\ Cardinality(ValidIndices) = 2
  /\ \E a \in ValidIndices, b \in ValidIndices :
       /\ DiagonalOf(a) < DiagonalOf(b)
       /\ tolerance = ToleranceOfMedian(DiagonalOf(b))
       /\ tolerance # ToleranceOfMedian(DiagonalOf(a))

\* C8, as claimed: the estimator returns 1.0 if and only if no province has
\* a boundary of at least 3 points.  It does not hold: a median diagonal of
\* 200 gives 200 * 0.005 = 1.0 as well.
C8_FallbackIffClaimed ==
  pc = "estimated" => (tolerance = 1 * FP <=> ValidIndices = {})

\* C8, amended: without any province of at least 3 boundary points the
\* estimator returns 1.0; with some it returns 0.005 times a diagonal of one
\* of them (which is 1.0 only for a diagonal of 200); and removing the
\* provinces of fewer than 3 points never changes the result.
C8_FallbackAndDegenerates ==
  pc = "estimated" =>
    /\ ValidIndices = {} => tolerance = 1 * FP
    /\ ValidIndices # {} =>
         \E k \in ValidIndices : tolerance = ToleranceOfMedian(DiagonalOf(k))
    /\ (tolerance = 1 * FP /\ ValidIndices # {}) =>
         \E k \in ValidIndices : DiagonalOf(k) = 200 * FP
    /\ tolerance =
         calculate_adaptive_tolerance(
           SelectSeq(provinces, LAMBDA p : ~Degenerate(p)))

C8_Witness ==
  /\ pc = "estimated"
  /\ ValidIndices # {}
  /\ \E k \in Indices : Degenerate(provinces[k]) /\ GetBoundary(provinces[k]) # <<>>
  /\ tolerance # 1 * FP

EmptyGraph ==
  /\ examined = {}
  /\ \A p \in Indices : provinces[p].neighbors = <<>>
  /\ total_adjacencies = 0
  /\ max_neighbors = 0
  /\ Len(isolated_provinces) = Len(provinces)

\* C9, as claimed: on an input without provinces, or with degenerate
\* provinces only, the pass (deriving its tolerance) uses the fallback
\* tolerance, compares nothing, completes, and leaves an empty graph with every
\* province isolated.  It does not hold for add_adjacencies_to_map without
\* provinces, which reports an error and returns before deriving a tolerance.
C9_EmptyInputClaimed ==
  (Terminated /\ AllDegenerate /\ tolerance_arg = None) =>
    pc = "done" /\ tolerance = 1 * FP /\ EmptyGraph

\* C9, amended: as claimed for every input of degenerate provinces only and
\* for recalculate_all_adjacencies without provinces; add_adjacencies_to_map
\* without provinces returns after its error report with no tolerance derived
\* and nothing changed.
C9_EmptyInput ==
  (Terminated /\ AllDegenerate /\ tolerance_arg = None) =>
    IF builder = "add_adjacencies_to_map" /\ input_provinces = <<>>
    THEN pc = "rejected" /\ tolerance = None /\ provinces = input_provinces
    ELSE pc = "done" /\ tolerance = 1 * FP /\ EmptyGraph

C9_Witness ==
  /\ pc = "done"
  /\ tolerance_arg = None
  /\ Len(provinces) >= 2
  /\ AllDegenerate
  /\ Len(isolated_provinces) = Len(provinces)

\* C10: with the derived tolerance, or any supplied tolerance >= 0, the pass
\* never raises: segments_intersect divides by non-zero lengths only.
\* The code divides by a zero length when the tolerance is 0 and an edge has
\* length 0, since 0 < 0 does not take the early return.
C10_NeverRaises == pc # "raised"

\* ------------------------------------------------------ merge properties
\* The provinces of the first n source files that hold a map, concatenated in
\* merge-list order.
RECURSIVE LoadedBefore(_)
LoadedBefore(n) ==
  IF n = 0 THEN <<>>
  ELSE LoadedBefore(n - 1)
       \o (IF sources[n].file = "map" THEN sources[n].provinces ELSE <<>>)

\* The source file the k-th province of the merged list comes from.
SourceOf(k) ==
  CHOOSE n \in 1..Len(sources) :
    Len(LoadedBefore(n - 1)) < k /\ k <= Len(LoadedBefore(n))

MergedIds == {provinces[p].id : p \in Indices}

\* C11: in a merge the k-th province of the concatenation (sources in
\* merge-list order, provinces in their listing order, k counted from 0) has
\* id 100 + k, without gap or repeat, also when source files are skipped; and
\* the written map holds these provinces.
C11_SequentialIds ==
  /\ \A p \in Indices : provinces[p].id = 100 + (p - 1)
  /\ pc \in {"start", "sweep", "done", "written"} =>
       LET all == LoadedBefore(Len(sources))
       IN /\ Len(provinces) = Len(all)
          /\ \A p \in Indices :
               /\ provinces[p].name = all[p].name
               /\ provinces[p].boundary = all[p].boundary
  /\ pc = "written" =>
       /\ map_file # Absent
       /\ map_file[1].provinces = provinces
       /\ Cardinality(MergedIds) = Len(provinces)

C11_Witness ==
  /\ pc = "written"
  /\ Len(sources) = 3
  /\ sources[1].provinces # <<>>
  /\ sources[2].file # "map"
  /\ Len(sources[3].provinces) = 2
  /\ provinces[Len(provinces)].id = 100 + Len(sources[1].provinces) + 1

\* C12: every merge operation recomputes the adjacency over the merged list
\* after renumbering: in the written map every neighbor entry was registered
\* by that recomputation and names the new id of a province of the merged
\* map, and no list is the one the source map carried.
\* combine_maps, update_combined_europe and generate_regional_map write the
\* neighbor lists of the source maps unchanged.
C12_NeighborsRecomputed ==
  pc = "written" =>
    \A p \in Indices :
      /\ provinces[p].neighbors = EntriesOf(p, registered)
      /\ \A k \in 1..Len(provinces[p].neighbors) :
           /\ provinces[p].neighbors[k].id \in MergedIds
           /\ provinces[p].neighbors[k].id # provinces[p].id

\* C13: update_combined_europe_with_adjacencies derives the tolerance once
\* from all merged provinces and sweeps the whole merged list once: every
\* pair of valid provinces is examined, whatever sources they come from, a
\* pair is registered (under the new ids) exactly when it is adjacent, and two
\* single-province maps adjacent across the seam come out as neighbors 100
\* and 101 with their common border of 10.0.
C13_CrossSourceAdjacency ==
  (pc = "written" /\ merger = "update_combined_europe_with_adjacencies") =>
    /\ run = 1
    /\ tolerance = calculate_adaptive_tolerance(provinces)
    /\ \A a \in Indices, b \in Indices :
         a < b =>
           /\ (~Degenerate(provinces[a]) /\ ~Degenerate(provinces[b]))
                => <<a, b>> \in examined
           /\ Registered(a, b) <=> ShouldRegister(a, b)
           /\ Registered(a, b) <=> Registered(b, a)
    /\ \A p \in Indices : provinces[p].neighbors = EntriesOf(p, registered)
    /\ (Len(sources) = 2 /\ sources[1].provinces = WestMap
        /\ sources[2].provinces = EastMap) =>
         /\ provinces[1].neighbors = <<[id |-> 101, border_length |-> 10 * FP]>>
         /\ provinces[2].neighbors = <<[id |-> 100, border_length |-> 10 * FP]>>

C13_Witness ==
  /\ pc = "written"
  /\ merger = "update_combined_europe_with_adjacencies"
  /\ \E a \in Indices, b \in Indices :
       /\ a < b
       /\ SourceOf(a) # SourceOf(b)
       /\ Len(sources[SourceOf(a)].provinces) = 1
       /\ Len(sources[SourceOf(b)].provinces) = 1
       /\ sources[SourceOf(a)].provinces[1].neighbors = <<>>
       /\ sources[SourceOf(b)].provinces[1].neighbors = <<>>
       /\ HasEntry(provinces[a], provinces[b].id, 10 * FP)
       /\ HasEntry(provinces[b], provinces[a].id, 10 * FP)

\* --------------------------------------------------- scenario properties
ShapeNames == [k \in Indices |-> provinces[k].name]

\* The result of segments_intersect for every pair of an edge of province a
\* and an edge of province b, by position in the two nested loops.
EdgePairs(a, b) ==
  0..(Len(GetBoundary(provinces[a])) * Len(GetBoundary(provinces[b])) - 1)
EdgeTest(a, b, tol, k) ==
  EdgePairTest(GetBoundary(provinces[a]), GetBoundary(provinces[b]), tol, k)

\* The edge of boundary number n (from 0) is vertical / horizontal.
IsVertical(boundary, n) == EdgeStart(boundary, n).x = EdgeEnd(boundary, n).x
IsHorizontal(boundary, n) == EdgeStart(boundary, n).y = EdgeEnd(boundary, n).y

ScenarioA ==
  /\ ShapeNames \in {<<"square1", "square2">>, <<"square2", "square1">>}
  /\ tolerance = FP \div 100

\* C14: for the two unit squares that share one full edge and tolerance 0.01
\* the pass registers exactly one adjacency, with border_length 1.00 on both
\* sides: of the 16 edge pairs only the pair of the shared vertical edges has
\* an overlap (of 1.0); the horizontal edges that meet end to end touch with
\* shared length 0.
C14_UnitSquares ==
  (pc = "done" /\ ScenarioA) =>
    /\ total_adjacencies = 1
    /\ registered = <<[a |-> 1, b |-> 2, length |-> 1 * FP]>>
    /\ provinces[1].neighbors =
         <<[id |-> provinces[2].id, border_length |-> 1 * FP]>>
    /\ provinces[2].neighbors =
         <<[id |-> provinces[1].id, border_length |-> 1 * FP]>>
    /\ isolated_provinces = <<>>
    /\ LET b1 == GetBoundary(provinces[1])
           b2 == GetBoundary(provinces[2])
           shared == {k \in EdgePairs(1, 2) :
                        EdgeTest(1, 2, tolerance, k).shared_length > 0}
       IN /\ Cardinality(shared) = 1
          /\ \A k \in shared :
               /\ EdgeTest(1, 2, tolerance, k) = SegResult(TRUE, 1 * FP)
               /\ IsVertical(b1, k \div Len(b2))
               /\ IsVertical(b2, k % Len(b2))
          /\ \A k \in EdgePairs(1, 2) :
               (IsHorizontal(b1, k \div Len(b2)) /\ IsHorizontal(b2, k % Len(b2))
                /\ EdgeStart(b1, k \div Len(b2)).y = EdgeStart(b2, k % Len(b2)).y)
                 => EdgeTest(1, 2, tolerance, k) = SegResult(TRUE, 0)

C14_Witness ==
  /\ pc = "done"
  /\ ShapeNames = <<"square1", "square2">>
  /\ tolerance = FP \div 100
  /\ run = 1
  /\ total_adjacencies = 1
  /\ measured = {<<1, 2>>}

\* The bounding box of the boundary of province p.
MinX(p) == SeqMin([k \in 1..Len(GetBoundary(provinces[p])) |->
                     GetBoundary(provinces[p])[k].x])
MaxX(p) == SeqMax([k \in 1..Len(GetBoundary(provinces[p])) |->
                     GetBoundary(provinces[p])[k].x])
MinY(p) == SeqMin([k \in 1..Len(GetBoundary(provinces[p])) |->
                     GetBoundary(provinces[p])[k].y])
MaxY(p) == SeqMax([k \in 1..Len(GetBoundary(provinces[p])) |->
                     GetBoundary(provinces[p])[k].y])

\* The boundaries of a and b are more than twice tol apart along an axis.
Separated(a, b, tol) ==
  \/ MinX(b) - MaxX(a) > 2 * tol \/ MinX(a) - MaxX(b) > 2 * tol
  \/ MinY(b) - MaxY(a) > 2 * tol \/ MinY(a) - MaxY(b) > 2 * tol

\* The two segments are more than twice tol apart along an axis.
SegmentsApart(a1, a2, b1, b2, tol) ==
  \/ Min2(b1.x, b2.x) - Max2(a1.x, a2.x) > 2 * tol
  \/ Min2(a1.x, a2.x) - Max2(b1.x, b2.x) > 2 * tol
  \/ Min2(b1.y, b2.y) - Max2(a1.y, a2.y) > 2 * tol
  \/ Min2(a1.y, a2.y) - Max2(b1.y, b2.y) > 2 * tol

ValidPairs ==
  {pair \in Indices \X Indices :
     /\ pair[1] < pair[2]
     /\ ~Degenerate(provinces[pair[1]]) /\ ~Degenerate(provinces[pair[2]])}

IsIsolated(p) ==
  \E k \in 1..Len(isolated_provinces) : isolated_provinces[k] = provinces[p].name

\* C15: two segments whose tolerance-expanded boxes do not overlap on an axis
\* get (False, 0.0) from segments_intersect before any other test (also when
\* a later test would divide by a zero length); hence two provinces separated
\* by more than twice the tolerance along an axis fail the quick check, are not
\* registered, never abort the pass, and a province separated from all others
\* is reported isolated (the unit squares at x in [0,1] and [5,6] both are).
C15_SeparatedNotAdjacent ==
  /\ pc = "raised" => ~Separated(i, j, tolerance)
  /\ pc = "done" =>
       /\ \A pair \in ValidPairs :
            LET a == pair[1]
                b == pair[2]
                ba == GetBoundary(provinces[a])
                bb == GetBoundary(provinces[b])
            IN /\ \A k \in EdgePairs(a, b) :
                    SegmentsApart(
                      EdgeStart(ba, k \div Len(bb)), EdgeEnd(ba, k \div Len(bb)),
                      EdgeStart(bb, k % Len(bb)), EdgeEnd(bb, k % Len(bb)),
                      tolerance)
                      => EdgeTest(a, b, tolerance, k) = SegResult(FALSE, 0)
               /\ Separated(a, b, tolerance) =>
                    /\ pair \in examined
                    /\ pair \notin quick_passed
                    /\ pair \notin measured
                    /\ ~Registered(a, b) /\ ~Registered(b, a)
       /\ \A p \in Indices :
            (\A q \in Indices : q # p => Separated(p, q, tolerance))
              => provinces[p].neighbors = <<>> /\ IsIsolated(p)
       /\ (Len(provinces) = 2 /\ "square1" \in {ShapeNames[1], ShapeNames[2]}
           /\ "square5" \in {ShapeNames[1], ShapeNames[2]}) =>
            /\ total_adjacencies = 0
            /\ Len(isolated_provinces) = 2

C15_Witness ==
  /\ pc = "done"
  /\ ShapeNames = <<"square1", "square5", "speck">>
  /\ tolerance = 0
  /\ examined = {<<1, 2>>, <<1, 3>>, <<2, 3>>}
  /\ quick_passed = {}
  /\ Len(isolated_provinces) = 3

\* No edge pair of provinces a and b has a collinear overlap above tol: every
\* edge test returns the shared length 0.
PointContactOnly(a, b, tol) ==
  \A k \in EdgePairs(a, b) :
    LET r == EdgeTest(a, b, tol, k) IN ~r.raised /\ r.shared_length = 0

\* Some edge test of a and b succeeds through the proximity of endpoints.
TouchAtVertex(a, b, tol) ==
  \E k \in EdgePairs(a, b) : EdgeTest(a, b, tol, k) = SegResult(TRUE, 0)

ScenarioC ==
  /\ {ShapeNames[k] : k \in Indices} = {"square1", "corner", "wedge"}
  /\ tolerance = FP \div 100

\* C16: provinces whose boundaries have no edge pair with a collinear overlap
\* above the tolerance are never registered: every registration of a pass has
\* such an edge pair, and a pair that only touches at a vertex passes the quick
\* check, gets the accumulated border 0 and is not registered; the three
\* provinces meeting at the point (1,1) all end isolated.
C16_PointContactNotRegistered ==
  /\ \A n \in 1..Len(registered) :
       ~PointContactOnly(registered[n].a, registered[n].b, tolerance)
  /\ pc = "done" =>
       \A pair \in ValidPairs :
         PointContactOnly(pair[1], pair[2], tolerance) =>
           /\ ~Registered(pair[1], pair[2]) /\ ~Registered(pair[2], pair[1])
           /\ calculate_border_length(GetBoundary(provinces[pair[1]]),
                GetBoundary(provinces[pair[2]]), tolerance) = Returned(0)
           /\ TouchAtVertex(pair[1], pair[2], tolerance) =>
                pair \in quick_passed /\ pair \in measured
  /\ (pc = "done" /\ ScenarioC) =>
       /\ \A pair \in ValidPairs :
            /\ TouchAtVertex(pair[1], pair[2], tolerance)
            /\ PointContactOnly(pair[1], pair[2], tolerance)
       /\ quick_passed = ValidPairs
       /\ registered = <<>>
       /\ total_adjacencies = 0
       /\ max_neighbors = 0
       /\ \A p \in Indices : provinces[p].neighbors = <<>> /\ IsIsolated(p)

C16_Witness ==
  /\ pc = "done"
  /\ ScenarioC
  /\ quick_passed = {<<1, 2>>, <<1, 3>>, <<2, 3>>}
  /\ measured = quick_passed
  /\ registered = <<>>

\* The first pass recorded b in the neighbor list of a.
FirstRegistered(a, b) ==
  \E k \in 1..Len(first_neighbors[a]) :
    first_neighbors[a][k].id = provinces[b].id

\* The largest collinear overlap an edge pair of a and b has at tolerance tol
\* (0 when no edge pair is collinear within tol).
LargestOverlap(a, b, tol) ==
  SeqMax([n \in 1..(Len(GetBoundary(provinces[a]))
                    * Len(GetBoundary(provinces[b]))) |->
            EdgeTest(a, b, tol, n - 1).shared_length])

\* A later pass with a larger tolerance has ended.
LargerToleranceDone ==
  /\ pc = "done"
  /\ run >= 2
  /\ first_tolerance # None
  /\ tolerance > first_tolerance

\* C17 as claimed: a pair the first pass registered with tolerance t1, having
\* an edge pair collinear within t1 (hence within every larger tolerance), is
\* registered by a pass with any larger tolerance t2.
\* The unit squares sharing an edge of length 1.0 are registered with
\* tolerance 0.01 and not with tolerance 1.0.
C17_MonotoneClaimed ==
  LargerToleranceDone =>
    \A pair \in ValidPairs :
      (FirstRegistered(pair[1], pair[2])
       /\ LargestOverlap(pair[1], pair[2], first_tolerance) > 0)
        => Registered(pair[1], pair[2])

\* C17 amended: a pair the first pass registered with tolerance t1 is
\* registered by a pass with a larger tolerance t2 whenever one of its edge
\* pairs is collinear within t1 with an overlap longer than t2.
C17_MonotoneWhileOverlapExceeds ==
  LargerToleranceDone =>
    \A pair \in ValidPairs :
      (FirstRegistered(pair[1], pair[2])
       /\ LargestOverlap(pair[1], pair[2], first_tolerance) > tolerance)
        => /\ Registered(pair[1], pair[2])
           /\ Registered(pair[2], pair[1])

C17_Witness ==
  /\ LargerToleranceDone
  /\ first_tolerance = FP \div 100
  /\ tolerance = FP \div 2
  /\ \E pair \in ValidPairs :
       /\ FirstRegistered(pair[1], pair[2])
       /\ LargestOverlap(pair[1], pair[2], first_tolerance) > tolerance
       /\ Registered(pair[1], pair[2])

\* Province list ps has the provinces of list qs, in the same order, with the
\* same fields, and with the same id, name and boundary.
SameButNeighbors(ps, qs) ==
  /\ Len(ps) = Len(qs)
  /\ \A k \in 1..Len(ps) :
       /\ DOMAIN ps[k] = DOMAIN qs[k]
       /\ ps[k].id = qs[k].id
       /\ ps[k].name = qs[k].name
       /\ ps[k].boundary = qs[k].boundary

\* C18: a pass changes nothing of the map but the neighbors field of each
\* province: at every step the province list has the provinces the pass
\* started on, in the same order, with the same id, name and boundary; the
\* id, name, description and bounds of the map are those of the loaded map,
\* in memory and in the file add_adjacencies_to_map writes; and the backup
\* it makes is the file as it was.
C18_OnlyNeighborsChange ==
  /\ SameButNeighbors(provinces, input_provinces)
  /\ map_region = InputRegion
  /\ map_file # Absent
  /\ map_file[1].map_region = InputRegion
  /\ SameButNeighbors(map_file[1].provinces, input_provinces)
  /\ backup_file # Absent =>
       /\ backup_file[1].map_region = InputRegion
       /\ SameButNeighbors(backup_file[1].provinces, input_provinces)
  /\ (pc = "sweep" /\ tolerance_arg = None) =>
       tolerance = calculate_adaptive_tolerance(input_provinces)

C18_Witness ==
  /\ pc = "done"
  /\ builder = "add_adjacencies_to_map"
  /\ tolerance_arg = None
  /\ registered # <<>>
  /\ provinces # input_provinces
  /\ map_file = MapData(map_region, provinces)
  /\ backup_file = MapData(map_region, input_provinces)

\* The positions of the provinces whose neighbor list is empty.
EmptyListed == {p \in Indices : provinces[p].neighbors = <<>>}

\* C20: when a pass has ended, the reported max neighbor count is the largest
\* neighbor-list length (0 when there is no province or no adjacency), and the
\* isolated list names exactly the provinces with an empty neighbor list, in
\* map order, the degenerate ones included; isolated provinces do not stop
\* add_adjacencies_to_map from writing the updated map.
C20_DiagnosticsMatchGraph ==
  pc = "done" =>
    /\ \A p \in Indices : Len(provinces[p].neighbors) <= max_neighbors
    /\ IF \A p \in Indices : provinces[p].neighbors = <<>>
       THEN max_neighbors = 0
       ELSE \E p \in Indices : Len(provinces[p].neighbors) = max_neighbors
    /\ Len(isolated_provinces) = Cardinality(EmptyListed)
    /\ \E pos \in [1..Len(isolated_provinces) -> EmptyListed] :
         /\ \A a, b \in 1..Len(isolated_provinces) : a < b => pos[a] < pos[b]
         /\ \A a \in 1..Len(isolated_provinces) :
              isolated_provinces[a] = provinces[pos[a]].name
    /\ \A p \in Indices : Degenerate(provinces[p]) => p \in EmptyListed
    /\ builder = "add_adjacencies_to_map" =>
         map_file = MapData(map_region, provinces)

C20_Witness ==
  /\ pc = "done"
  /\ builder = "add_adjacencies_to_map"
  /\ registered # <<>>
  /\ max_neighbors >= 1
  /\ isolated_provinces # <<>>
  /\ \E p \in EmptyListed : Degenerate(provinces[p])
  /\ map_file = MapData(map_region, provinces)

\* C19: degenerate provinces do not affect the others: the estimator gives
\* the same tolerance for a map and for the map without its provinces of fewer
\* than 3 boundary points, and a pass over the map without them uses the
\* tolerance of the pass over the whole map, ends as that pass ended, and
\* leaves every remaining province the neighbor list that pass left it.
C19_DegeneratesDoNotMatter ==
  /\ calculate_adaptive_tolerance(RemoveDegenerates(provinces))
       = calculate_adaptive_tolerance(provinces)
  /\ run = 2 =>
       /\ provinces = RemoveDegenerates(provinces)
       /\ pc # "raised"
       /\ pc \in {"sweep", "done"} => tolerance = first_tolerance
       /\ pc \in {"done", "rejected"} =>
            NeighborLists(provinces) = first_neighbors
       /\ pc = "rejected" => provinces = <<>>

C19_Witness ==
  /\ run = 2
  /\ pc = "done"
  /\ tolerance_arg = None
  /\ Len(provinces) = 2
  /\ registered # <<>>
  /\ NeighborLists(provinces) = first_neighbors
  /\ backup_file # Absent
  /\ Len(backup_file[1].provinces) = 3
  /\ Len(GetBoundary(backup_file[1].provinces[2])) < MinBoundaryPoints

\* ------------------------------------------------- two-phase properties
\* Some edge pair of provinces a and b passes the Segment Relation Test.
SomeEdgeTouches(a, b, tol) ==
  \E k \in EdgePairs(a, b) :
    /\ EdgeTest(a, b, tol, k).intersects
    /\ \A m \in 0..(k - 1) : ~EdgeTest(a, b, tol, m).raised

\* C21: in every pass the border length of a pair is measured only after the
\* quick check of that pair returned true in that pass: the measured pairs
\* are among the pairs that passed the quick check, which are among the
\* examined pairs and have an edge pair that touches; a pair whose quick check
\* returned false is not measured and not registered.
C21_MeasuredAfterQuickCheck ==
  /\ measured \subseteq quick_passed
  /\ quick_passed \subseteq examined
  /\ \A pair \in measured : SomeEdgeTouches(pair[1], pair[2], tolerance)
  /\ \A n \in 1..Len(registered) :
       <<registered[n].a, registered[n].b>> \in measured
  /\ \A pair \in examined :
       ~SomeEdgeTouches(pair[1], pair[2], tolerance) =>
         /\ pair \notin measured
         /\ pc \in {"sweep", "done"} =>
              ~Registered(pair[1], pair[2]) /\ ~Registered(pair[2], pair[1])

C21_Witness ==
  /\ pc = "done"
  /\ \E pair \in examined :
       /\ pair \notin quick_passed
       /\ pair \notin measured
       /\ ~Registered(pair[1], pair[2])
  /\ \E pair \in measured : Registered(pair[1], pair[2])

\* The border length of provinces a and b, and their quick check.
BorderOf(a, b, tol) ==
  calculate_border_length(GetBoundary(provinces[a]), GetBoundary(provinces[b]),
                          tol)
QuickCheckOf(a, b, tol) ==
  are_neighbors(GetBoundary(provinces[a]), GetBoundary(provinces[b]), tol)

\* A builder without the quick check: the accumulator and the `> tolerance`
\* rule applied to every valid pair a < b in the order of the sweep.  It
\* gives the registrations made, or raises at a pair.
RECURSIVE OnePhaseFrom(_, _, _, _)
OnePhaseFrom(a, b, tol, regs) ==
  IF a > Len(provinces) THEN [raised |-> FALSE, at |-> <<0, 0>>, regs |-> regs]
  ELSE IF b > Len(provinces) \/ Degenerate(provinces[a])
  THEN OnePhaseFrom(a + 1, a + 2, tol, regs)
  ELSE IF Degenerate(provinces[b]) THEN OnePhaseFrom(a, b + 1, tol, regs)
  ELSE LET bl == BorderOf(a, b, tol)
       IN IF bl.raised THEN [raised |-> TRUE, at |-> <<a, b>>, regs |-> regs]
          ELSE OnePhaseFrom(a, b + 1, tol,
                 IF bl.value > tol
                 THEN Append(regs, [a |-> a, b |-> b, length |-> bl.value])
                 ELSE regs)

OnePhase(tol) == OnePhaseFrom(1, 2, tol, <<>>)

\* The pass has ended as the one-phase builder, whose outcome is op, ends.
EndsAs(op) ==
  /\ pc = "done" =>
       /\ ~op.raised
       /\ op.regs = registered
       /\ \A p \in Indices : provinces[p].neighbors = EntriesOf(p, op.regs)
  /\ pc = "raised" =>
       /\ op.raised
       /\ op.at = <<i, j>>
       /\ op.regs = registered

\* The quick check qc and the border length bl of one pair agree.
QuickCheckAgrees(qc, bl) ==
  /\ (~bl.raised /\ bl.value > 0) => qc = Returned(TRUE)
  /\ qc = Returned(FALSE) => bl = Returned(0)
  /\ qc.raised => bl.raised

\* C22: the quick check is a pure optimisation.  For the two boundaries of
\* every two-province map, in both orders, and every tolerance: a positive
\* border length implies a true quick check, a false quick check implies the
\* border length 0, and a quick check that raises implies an accumulator that
\* raises.  So every pass ends as the builder without the quick check ends:
\* with the same registrations in the same order, or raising at the same pair.
C22_QuickCheckIsOptimisation ==
  /\ (pc = "start" /\ run = 1 /\ Len(provinces) = 2) =>
       \A t \in ScenarioTolerances :
         /\ QuickCheckAgrees(QuickCheckOf(1, 2, t), BorderOf(1, 2, t))
         /\ QuickCheckAgrees(QuickCheckOf(2, 1, t), BorderOf(2, 1, t))
  /\ pc \in {"done", "raised"} => EndsAs(OnePhase(tolerance))

C22_Witness ==
  /\ pc = "done"
  /\ registered # <<>>
  /\ \E pair \in quick_passed : ~Registered(pair[1], pair[2])
  /\ OnePhase(tolerance).regs = registered

\* ---------------------------------------------------- geometry properties
\* The two segments of edge pair k of provinces a and b.
Segments(a, b, k) ==
  LET ba == GetBoundary(provinces[a])
      bb == GetBoundary(provinces[b])
  IN [a1 |-> EdgeStart(ba, k \div Len(bb)), a2 |-> EdgeEnd(ba, k \div Len(bb)),
      b1 |-> EdgeStart(bb, k % Len(bb)), b2 |-> EdgeEnd(bb, k % Len(bb))]

\* The edge pairs of the two provinces, taken in either order.
OrderedEdgePairs ==
  UNION {{<<p[1], p[2], k>> : k \in EdgePairs(p[1], p[2])} :
           p \in {q \in Indices \X Indices : q[1] # q[2]}}

\* The bounding-box reject does not fire and a segment is shorter than tol.
ShortSegment(s, tol) ==
  /\ ~SegmentsApart(s.a1, s.a2, s.b1, s.b2, tol)
  /\ distance(s.a1, s.a2) < tol \/ distance(s.b1, s.b2) < tol

\* Some endpoint of A is less than tol away from some endpoint of B.
EndpointWithin(s, tol) ==
  \E p \in {s.a1, s.a2}, q \in {s.b1, s.b2} : distance(p, q) < tol

\* No endpoint of A is within tol of an endpoint of B, one is exactly tol away.
EndpointAtTolerance(s, tol) ==
  /\ ~EndpointWithin(s, tol)
  /\ \E p \in {s.a1, s.a2}, q \in {s.b1, s.b2} : distance(p, q) = tol

\* C23: when the bounding-box reject does not fire and a segment is strictly
\* shorter than the tolerance, segments_intersect returns (endpoints_close,
\* 0.0): true exactly when an endpoint of A is at a distance strictly less
\* than the tolerance from an endpoint of B, and never a positive length.
C23_DegenerateLengthGuard ==
  \A t \in OrderedEdgePairs :
    LET s == Segments(t[1], t[2], t[3])
    IN ShortSegment(s, tolerance_arg) =>
         EdgeTest(t[1], t[2], tolerance_arg, t[3])
           = SegResult(EndpointWithin(s, tolerance_arg), 0)

C23_Witness ==
  /\ pc = "done"
  /\ \E t \in OrderedEdgePairs :
       /\ ShortSegment(Segments(t[1], t[2], t[3]), tolerance)
       /\ EdgeTest(t[1], t[2], tolerance, t[3]) = SegResult(TRUE, 0)
  /\ \E t \in OrderedEdgePairs :
       /\ ShortSegment(Segments(t[1], t[2], t[3]), tolerance)
       /\ EndpointAtTolerance(Segments(t[1], t[2], t[3]), tolerance)
       /\ EdgeTest(t[1], t[2], tolerance, t[3]) = SegResult(FALSE, 0)

\* The edges of a cyclic boundary: from each point to the next, and from
\* the last point back to the first.
CyclicEdges(boundary) ==
  [n \in 1..Len(boundary) |->
     [from |-> boundary[n],
      to |-> IF n = Len(boundary) THEN boundary[1] ELSE boundary[n + 1]]]

\* The Segment Relation Test of edge n of province a against edge m of b.
RelationTest(a, b, n, m, tol) ==
  LET ea == CyclicEdges(GetBoundary(provinces[a]))[n]
      eb == CyclicEdges(GetBoundary(provinces[b]))[m]
  IN segments_intersect(ea.from, ea.to, eb.from, eb.to, tol)

EdgeIndexPairs(a, b) ==
  (1..Len(GetBoundary(provinces[a]))) \X (1..Len(GetBoundary(provinces[b])))

\* The edge pairs of a and b for which the test reports a positive overlap.
OverlappingEdges(a, b, tol) ==
  {e \in EdgeIndexPairs(a, b) :
     LET r == RelationTest(a, b, e[1], e[2], tol)
     IN ~r.raised /\ r.intersects /\ r.shared_length > 0}

RECURSIVE OverlapSum(_, _, _, _)
OverlapSum(a, b, tol, edges) ==
  IF edges = {} THEN 0
  ELSE LET e == CHOOSE x \in edges : TRUE
       IN RelationTest(a, b, e[1], e[2], tol).shared_length
            + OverlapSum(a, b, tol, edges \ {e})

SomeTestRaises(a, b, tol) ==
  \E e \in EdgeIndexPairs(a, b) : RelationTest(a, b, e[1], e[2], tol).raised

\* An edge pair that involves the closing edge of one of the two boundaries.
ClosingEdgePairs(a, b) ==
  {e \in EdgeIndexPairs(a, b) :
     \/ e[1] = Len(GetBoundary(provinces[a]))
     \/ e[2] = Len(GetBoundary(provinces[b]))}

\* C24: calculate_border_length returns the sum of the overlap lengths of all
\* the n1 x n2 edge pairs of the two cyclic boundaries for which the Segment
\* Relation Test reports a positive overlap, the pairs with a closing edge
\* included, and 0 when there is none (the call raises when a test raises);
\* a registered pair carries that sum.
C24_SumOverAllEdgePairs ==
  /\ \A a \in Indices, b \in Indices :
       a # b =>
         BorderOf(a, b, tolerance_arg) =
           IF SomeTestRaises(a, b, tolerance_arg) THEN Raised
           ELSE Returned(OverlapSum(a, b, tolerance_arg,
                                    OverlappingEdges(a, b, tolerance_arg)))
  /\ \A n \in 1..Len(registered) :
       registered[n].length =
         OverlapSum(registered[n].a, registered[n].b, tolerance,
                    OverlappingEdges(registered[n].a, registered[n].b,
                                     tolerance))

C24_Witness ==
  /\ pc = "done"
  /\ Len(registered) = 1
  /\ Cardinality(OverlappingEdges(1, 2, tolerance)) >= 2
  /\ OverlappingEdges(1, 2, tolerance) \subseteq ClosingEdgePairs(1, 2)
  /\ registered[1].length = 1 * FP

\* C25: for every tolerance >= 0 the length segments_intersect returns is 0
\* or strictly greater than the tolerance, and a positive length comes with
\* the touch flag true; so the accumulated border length of two provinces is
\* 0 or strictly greater than the tolerance, and a pass registers a pair
\* exactly when one of its edge pairs has a collinear overlap.
C25_LengthDichotomy ==
  /\ tolerance_arg >= 0
  /\ \A t \in OrderedEdgePairs :
       LET r == EdgeTest(t[1], t[2], tolerance_arg, t[3])
       IN ~r.raised =>
            /\ r.shared_length = 0 \/ r.shared_length > tolerance_arg
            /\ r.shared_length > 0 => r.intersects
  /\ \A a \in Indices, b \in Indices :
       a # b =>
         LET bl == BorderOf(a, b, tolerance_arg)
         IN ~bl.raised => bl.value = 0 \/ bl.value > tolerance_arg
  /\ pc = "done" =>
       (Registered(1, 2) <=> OverlappingEdges(1, 2, tolerance) # {})

C25_Witness ==
  /\ pc = "done"
  /\ tolerance = FP \div 2
  /\ ShapeNames = <<"square1", "half">>
  /\ OverlappingEdges(1, 2, tolerance) = {}
  /\ OverlappingEdges(1, 2, FP \div 100) # {}
  /\ ~Registered(1, 2)
  /\ BorderOf(1, 2, tolerance) = Returned(0)

\* ----------------------------------------------------- counter properties
RECURSIVE TotalEntries(_)
TotalEntries(ps) ==
  IF ps = <<>> THEN 0 ELSE Len(ps[1].neighbors) + TotalEntries(Tail(ps))

\* The unordered pairs of list positions registered in this pass.
RegisteredPairs ==
  {{registered[n].a, registered[n].b} : n \in 1..Len(registered)}

\* C26: during the sweep and at its end the total adjacency counter is the
\* number of registered unordered pairs and the neighbor lists together hold
\* exactly twice as many entries; every examined pair lies behind the loop
\* position, so none is examined twice in a pass; and, the ids being unique,
\* no neighbor list holds the same id twice.
C26_CounterMatchesGraph ==
  pc \in {"sweep", "done", "raised"} =>
    /\ total_adjacencies = Len(registered)
    /\ total_adjacencies = Cardinality(RegisteredPairs)
    /\ \A pair \in RegisteredPairs : Cardinality(pair) = 2
    /\ TotalEntries(provinces) = 2 * total_adjacencies
    /\ \A p \in Indices, q \in Indices :
         p # q => provinces[p].id # provinces[q].id
    /\ \A p \in Indices :
         \A k, l \in 1..Len(provinces[p].neighbors) :
           k # l => provinces[p].neighbors[k].id # provinces[p].neighbors[l].id
    /\ pc = "sweep" =>
         \A pair \in examined :
           pair[1] < i \/ (pair[1] = i /\ pair[2] < j)

C26_Witness ==
  /\ pc = "sweep"
  /\ total_adjacencies = 2
  /\ TotalEntries(provinces) = 4
  /\ \E p \in Indices : Len(provinces[p].neighbors) = 2

SameOutcome(r1, r2) ==
  /\ r1.raised = r2.raised
  /\ ~r1.raised => r1.value = r2.value

C28_OrderIndependent ==
  /\ SameOutcome(QuickCheckOf(1, 2, tolerance_arg),
                 QuickCheckOf(2, 1, tolerance_arg))
  /\ SameOutcome(BorderOf(1, 2, tolerance_arg),
                 BorderOf(2, 1, tolerance_arg))
  /\ pc = "done" =>
       (Registered(1, 2) <=> SignificantBorder(BorderOf(2, 1, tolerance).value,
                                               tolerance))


\* ------------------------------------------------------- backup properties
\* The neighbor lists the map file held before any run.
Untouched(ps) == \A k \in 1..Len(ps) : ps[k].neighbors = <<StaleEntry>>

\* The step in which add_adjacencies_to_map saves the map.
SaveStep ==
  /\ builder = "add_adjacencies_to_map"
  /\ pc = "sweep"
  /\ pc' = "done"

\* C29: across the runs of add_adjacencies_to_map on one map file, the backup
\* appears only in a step that saves the map and is then the map file as it
\* was before that step rewrote it; once it exists no step changes it; the
\* map file changes in save steps only; so the backup, whenever it exists,
\* holds the content the map file had before the first run that saved.
C29_BackupKeepsFirstContent ==
  [][/\ backup_file # Absent => backup_file' = backup_file
     /\ backup_file' # backup_file => (SaveStep /\ backup_file' = map_file)
     /\ map_file' # map_file => (SaveStep /\ backup_file' # Absent)
     /\ backup_file' # Absent => Untouched(backup_file'[1].provinces)]_vars

C29_Witness ==
  /\ run = 2
  /\ pc = "done"
  /\ builder = "add_adjacencies_to_map"
  /\ registered # <<>>
  /\ backup_file # Absent
  /\ Untouched(backup_file[1].provinces)
  /\ map_file # backup_file
  /\ map_file = MapData(map_region, provinces)


\* ----------------------------------------------------- rejected-load properties
\* The file holds no map region or no province.
Unusable(file) ==
  \/ "map_region" \notin DOMAIN file[1]
  \/ "provinces" \notin DOMAIN file[1]
  \/ file[1].provinces = <<>>

\* C30: add_adjacencies_to_map on a file without a map_region key, without
\* a province list or with an empty one ends at once as rejected, and the
\* merge main ends as rejected when its sources gave no province; a step
\* that rejects leaves the map file and the backup file as they are, which
\* is as they were at the start: the unusable map file without a backup, or
\* no combined map and no backup.
C30_RejectedLoadWritesNothing ==
  [][/\ (pc = "load" /\ Unusable(map_file)) => pc' = "rejected"
     /\ (MergeEnded /\ provinces = <<>>) => pc' = "rejected"
     /\ pc' = "rejected" =>
          /\ map_file' = map_file
          /\ backup_file' = backup_file
          /\ backup_file' = Absent
          /\ IF merger = "none" THEN Unusable(map_file')
                                ELSE map_file' = Absent]_vars

C30_Witness ==
  /\ pc = "rejected"
  /\ builder = "add_adjacencies_to_map"
  /\ map_file = NoProvincesDocument
  /\ backup_file = Absent

====
